---------------------------- MODULE Spec2Model ----------------------------
(* A model of the converters of bonbj/converters: the name sanitizer, the  *)
(* value escapers (CSV/XLSX and DBF), the type inferencer and the          *)
(* CREATE TABLE emission of the to-SQL converters.                         *)
(*                                                                         *)
(* A Python str is a sequence of one-character strings; the text a         *)
(* converter writes is the sequence of the pieces it appends to sql_lines. *)
EXTENDS Integers, Sequences, FiniteSets, TLC

VARIABLES
    name,        \* sanitizer: the source name handed to sanitize_name
    ident,       \* sanitizer: sanitize_name(name), <<>> before the call
    ident2,      \* sanitizer: sanitize_name(ident), <<>> before the call
    san_pc,      \* sanitizer: "input", "once" (sanitized), "twice"
    value,       \* escaper: the cell value handed to escape_sql_value
    col_type,    \* escaper: its column type (CSV/XLSX) or DBF field code
    escaper,     \* escaper: "csv" (the CSV/XLSX copies) or "dbc" (the DBF copies)
    literal,     \* escaper: the literal returned, <<>> before the call
    esc_pc,      \* escaper: "input" or "done"
    pandas,      \* environment: the major version of the pandas installed
    series,      \* inferencer: one column, its dtype and its cells
    pg_type,     \* inferencer: the type infer_postgres_type returned
    col_decl,    \* inferencer: the type and nullability a converter declares
    inf_pc,      \* inferencer: "input", "inferred" or "declared"
    variant,     \* converter: which script's converter runs
    src,         \* converter: the source table (a frame or a DBF table)
    sql_file,    \* converter: the output file, whether it exists and its text
    ret,         \* converter: what the converter returned, "-" before the call
    conv_pc,     \* converter: "input" or "done"
    dbc_field,   \* field mapping: a DBF field descriptor (type, length, decimal)
    dbc_pg,      \* field mapping: what dbc_type_to_postgres returned
    map_pc,      \* field mapping: "input" or "done"
    catalog,     \* extractor: the tables of the schema, as obter_tabelas lists them
    conn,        \* extractor: the connection: "open", "aborted" (open, its
                 \*   transaction failed) or "closed" (conn.closed is set)
    tabela,      \* extractor: the place in catalog of the table main is at
    got,         \* extractor: what the queries of the table gave so far
    schema_file, \* extractor: the blocks appended to schema-<schema>.sql
    total_tabelas, \* extractor: main's count of the tables written
    total_erros, \* extractor: main's count of the tables that failed
    ext_log,     \* extractor: one record per table main went through
    ext_pc,      \* extractor: "schema", "table", "colunas", "pk", "fk", "unique",
                 \*   "indices", "done", "exited" (sys.exit), or "idle"
    script,      \* batch run: "csv" (processar_csvs) or "dbc" (processar_dbc)
    platform,    \* batch run: "posix" or "windows" (how Path.glob matches case)
    source_dir,  \* batch run: the files of the source directory
    files_found, \* batch run: the places in source_dir of the files to process
    item,        \* batch run: the place in files_found of the next file
    run_file,    \* batch run: the SQL file of the run
    sucessos,    \* batch run: the count of the files converted
    erros,       \* batch run: the count of the files that failed
    run_pc,      \* batch run: "start", "loop", "done" or "idle"
    db,          \* round trip: the tables of the source database
    target,      \* round trip: the place in db of the table extracted
    sql_table,   \* round trip: the statements gerar_create_table gave for it
    replayed,    \* round trip: the tables of the database the script built
    table_def,   \* round trip: what extracting the table again gave
    rt_pc,       \* round trip: "extract", "replay", "again", "done" or "idle"
    arquivo_origem,   \* splitter: the input file: whether it exists, its lines
    linhas_por_bloco, \* splitter: the size of a block
    total_linhas,     \* splitter: the count of the lines of the input
    num_blocos,       \* splitter: the count of blocks announced
    bloco_atual,      \* splitter: the number of the block being written
    linhas_no_bloco,  \* splitter: the lines written to that block
    linha_num,        \* splitter: the number of the last line read
    arquivo_destino,  \* splitter: whether a block file is open
    blocos,           \* splitter: the block files written
    retorno,          \* splitter: what dividir_sql returned, -1 before
    split_pc          \* splitter: "start", "loop", "done" or "idle"

sanVars == <<name, ident, ident2, san_pc>>

escVars == <<value, col_type, escaper, literal, esc_pc>>

envVars == <<pandas>>

infVars == <<series, pg_type, col_decl, inf_pc>>

convVars == <<variant, src, sql_file, ret, conv_pc>>

mapVars == <<dbc_field, dbc_pg, map_pc>>

extVars == <<catalog, conn, tabela, got, schema_file, total_tabelas, total_erros,
             ext_log, ext_pc>>

runVars == <<script, platform, source_dir, files_found, item, run_file, sucessos,
             erros, run_pc>>

rtVars == <<db, target, sql_table, replayed, table_def, rt_pc>>

splitVars == <<arquivo_origem, linhas_por_bloco, total_linhas, num_blocos, bloco_atual,
               linhas_no_bloco, linha_num, arquivo_destino, blocos, retorno, split_pc>>

vars == <<envVars, sanVars, escVars, infVars, convVars, mapVars, extVars, runVars,
          rtVars, splitVars>>

\* what each part of the model leaves alone
sanOthers ==
    <<envVars, escVars, infVars, convVars, mapVars, extVars, runVars,
      rtVars, splitVars>>

escOthers ==
    <<envVars, sanVars, infVars, convVars, mapVars, extVars, runVars,
      rtVars, splitVars>>

infOthers ==
    <<envVars, sanVars, escVars, convVars, mapVars, extVars, runVars,
      rtVars, splitVars>>

convOthers ==
    <<envVars, sanVars, escVars, infVars, mapVars, extVars, runVars,
      rtVars, splitVars>>

mapOthers ==
    <<envVars, sanVars, escVars, infVars, convVars, extVars, runVars,
      rtVars, splitVars>>

extOthers ==
    <<envVars, sanVars, escVars, infVars, convVars, mapVars, runVars,
      rtVars, splitVars>>

runOthers ==
    <<sanVars, escVars, infVars, convVars, mapVars, extVars, rtVars, splitVars>>

rtOthers ==
    <<envVars, sanVars, escVars, infVars, convVars, mapVars, extVars, runVars,
      splitVars>>

splitOthers ==
    <<envVars, sanVars, escVars, infVars, convVars, mapVars, extVars, runVars,
      rtVars>>

(***************************************************************************)
(* Characters and strings                                                  *)
(***************************************************************************)

\* Bounds of the model: the longest name and the longest cell string that
\* are enumerated exhaustively.
MaxNameLen == 4

MaxStrLen == 2

\* the most rows a column has
MaxRows == 2

\* the most columns a source table has
MaxCols == 2

UpperChars == <<"A","B","C","D","E","F","G","H","I","J","K","L","M",
                "N","O","P","Q","R","S","T","U","V","W","X","Y","Z">>

LowerChars == <<"a","b","c","d","e","f","g","h","i","j","k","l","m",
                "n","o","p","q","r","s","t","u","v","w","x","y","z">>

DigitChars == <<"0","1","2","3","4","5","6","7","8","9">>

Range(s) == { s[i] : i \in DOMAIN s }

IsUpper(c) == c \in Range(UpperChars)

IsLower(c) == c \in Range(LowerChars)

IsDigit(c) == c \in Range(DigitChars)

\* what the regular expression class \s matches (the ASCII part of it)
IsSpace(c) == c \in {" ", "\t", "\n", "\r"}

\* str.lower() and str.upper() on one character
LowerChar(c) ==
    IF IsUpper(c) THEN LowerChars[CHOOSE i \in DOMAIN UpperChars : UpperChars[i] = c] ELSE c

UpperChar(c) ==
    IF IsLower(c) THEN UpperChars[CHOOSE i \in DOMAIN LowerChars : LowerChars[i] = c] ELSE c

\* a lower() that was left out
LowerLeftOut(s) == s

str_lower(s) == [i \in DOMAIN s |-> LowerChar(s[i])]

str_upper(s) == [i \in DOMAIN s |-> UpperChar(s[i])]

\* every string over alphabet A of length at most n
StringsUpTo(A, n) == UNION { [1..k -> A] : k \in 0..n }

(***************************************************************************)
(* Name Sanitizer: sanitize_name                                           *)
(***************************************************************************)

\* re.sub(r'[^a-zA-Z0-9\s_]', '', name): delete what is outside the class
re_sub_special(s) ==
    SelectSeq(s, LAMBDA c : IsUpper(c) \/ IsLower(c) \/ IsDigit(c) \/ IsSpace(c) \/ c = "_")

IsSep(c) == IsSpace(c) \/ c = "_"

\* the pattern without its '+': every separator becomes a '_' of its own
re_sub_each(s) == [i \in DOMAIN s |-> IF IsSep(s[i]) THEN "_" ELSE s[i]]

\* re.sub(r'[\s_]+', '_', name): each maximal run of separators becomes one '_'
RECURSIVE re_sub_runs(_)
re_sub_runs(s) ==
    IF s = <<>> THEN <<>>
    ELSE IF IsSep(s[1])
         THEN IF Len(s) > 1 /\ IsSep(s[2])
              THEN re_sub_runs(Tail(s))
              ELSE <<"_">> \o re_sub_runs(Tail(s))
         ELSE <<s[1]>> \o re_sub_runs(Tail(s))

RECURSIVE str_lstrip(_, _)
str_lstrip(s, c) ==
    IF s # <<>> /\ s[1] = c THEN str_lstrip(Tail(s), c) ELSE s

RECURSIVE str_rstrip(_, _)
str_rstrip(s, c) ==
    IF s # <<>> /\ s[Len(s)] = c THEN str_rstrip(SubSeq(s, 1, Len(s) - 1), c) ELSE s

\* name.strip('_')
str_strip(s, c) == str_rstrip(str_lstrip(s, c), c)

\* the prefix without its isdigit() test
PrefixAlways(s) == <<"t", "_">> \o s

\* if name and name[0].isdigit(): name = 't_' + name
digit_prefix(s) ==
    IF s # <<>> /\ IsDigit(s[1]) THEN <<"t", "_">> \o s ELSE s

unnamed == <<"u","n","n","a","m","e","d">>

sanitize_name(s) ==
    LET n1 == re_sub_special(s)
        n2 == re_sub_runs(n1)
        n3 == str_lower(n2)
        n4 == str_strip(n3, "_")
        n5 == digit_prefix(n4)
    IN  IF n5 # <<>> THEN n5 ELSE unnamed

(***************************************************************************)
(* Python values                                                           *)
(*                                                                         *)
(* A cell value is None, a bool (Python's or numpy's), an int, a float     *)
(* (finite, infinite or NaN), a str, a datetime (datetime.datetime or its  *)
(* subclass pandas.Timestamp), a date (datetime.date, which is no          *)
(* datetime) or a bytes object.  An int is kept as sign and magnitude in   *)
(* two 16-bit limbs, hi * 65536 + lo, so that values beyond 32 bits exist. *)
(***************************************************************************)

PyNone == [k |-> "None"]

PyBool(b) == [k |-> "bool", b |-> b]

NpBool(b) == [k |-> "np_bool", b |-> b]

PyInt(n) == [k |-> "int", neg |-> n < 0, hi |-> 0, lo |-> IF n < 0 THEN -n ELSE n]

BigInt(neg, hi, lo) == [k |-> "int", neg |-> neg, hi |-> hi, lo |-> lo]

\* a finite float: ip "." fr, fr without trailing zeros
PyFloat(neg, ip, fr) == [k |-> "float", cls |-> "finite", neg |-> neg, ip |-> ip, fr |-> fr]

PyInf(neg) == [k |-> "float", cls |-> "inf", neg |-> neg]

PyNaN == [k |-> "float", cls |-> "nan"]

PyStr(s) == [k |-> "str", s |-> s]

PyDatetime(y, mo, d, h, mi, sec) ==
    [k |-> "datetime", y |-> y, mo |-> mo, d |-> d, h |-> h, mi |-> mi, sec |-> sec]

PyDate(y, mo, d) == [k |-> "date", y |-> y, mo |-> mo, d |-> d]

PyBytes(s) == [k |-> "bytes", s |-> s]

PyTimedelta(sec) == [k |-> "timedelta", sec |-> sec]

\* the decimal digits of a natural number
RECURSIVE NatStr(_)
NatStr(n) ==
    IF n < 10 THEN <<DigitChars[n + 1]>> ELSE NatStr(n \div 10) \o <<DigitChars[(n % 10) + 1]>>

\* the decimal digits of a two-limb magnitude, by long division by ten
RECURSIVE LimbStr(_, _)
LimbStr(hi, lo) ==
    LET r   == (hi % 10) * 65536 + lo
        qhi == hi \div 10
        qlo == r \div 10
    IN  IF hi = 0 /\ lo < 10 THEN <<DigitChars[lo + 1]>>
        ELSE LimbStr(qhi + (qlo \div 65536), qlo % 65536) \o <<DigitChars[(r % 10) + 1]>>

\* zero padding of strftime's %m %d %H %M %S (width 2) and %Y (width 4)
Pad(n, w) ==
    LET ds == NatStr(n) IN [i \in 1..(w - Len(ds)) |-> "0"] \o ds

\* value.strftime('%Y-%m-%d')
strftime_date(v) == Pad(v.y, 4) \o <<"-">> \o Pad(v.mo, 2) \o <<"-">> \o Pad(v.d, 2)

\* value.strftime('%Y-%m-%d %H:%M:%S')
strftime_timestamp(v) ==
    strftime_date(v) \o <<" ">> \o Pad(v.h, 2) \o <<":">> \o Pad(v.mi, 2)
        \o <<":">> \o Pad(v.sec, 2)

\* str() of a float: repr's fixed-point form, which holds for the magnitudes
\* of this model (between 1e-4 and 1e16)
float_str(f) ==
    IF f.cls = "nan" THEN <<"n","a","n">>
    ELSE IF f.cls = "inf" THEN (IF f.neg THEN <<"-">> ELSE <<>>) \o <<"i","n","f">>
    ELSE (IF f.neg THEN <<"-">> ELSE <<>>) \o NatStr(f.ip) \o <<".">>
             \o (IF f.fr = <<>> THEN <<"0">> ELSE f.fr)

\* str(value)
py_str(v) ==
    CASE v.k = "None"     -> <<"N","o","n","e">>
      [] v.k \in {"bool", "np_bool"} ->
             IF v.b THEN <<"T","r","u","e">> ELSE <<"F","a","l","s","e">>
      [] v.k = "int"      -> (IF v.neg THEN <<"-">> ELSE <<>>) \o LimbStr(v.hi, v.lo)
      [] v.k = "float"    -> float_str(v)
      [] v.k = "str"      -> v.s
      [] v.k = "datetime" -> strftime_timestamp(v)
      [] v.k = "date"     -> strftime_date(v)
      [] v.k = "bytes"    -> <<"b", "'">> \o v.s \o <<"'">>

\* the value of a digit string
RECURSIVE DigitsVal(_)
DigitsVal(ds) ==
    IF ds = <<>> THEN 0
    ELSE DigitsVal(SubSeq(ds, 1, Len(ds) - 1)) * 10
           + (CHOOSE i \in 0..9 : DigitChars[i + 1] = ds[Len(ds)])

RECURSIVE space_lstrip(_)
space_lstrip(s) == IF s # <<>> /\ IsSpace(s[1]) THEN space_lstrip(Tail(s)) ELSE s

RECURSIVE space_rstrip(_)
space_rstrip(s) ==
    IF s # <<>> /\ IsSpace(s[Len(s)]) THEN space_rstrip(SubSeq(s, 1, Len(s) - 1)) ELSE s

\* float() of a string: blanks trimmed, an optional sign, then inf, infinity
\* or nan in any case, or digits with at most one point.  (Exponents and
\* digit-group underscores are also accepted by Python; no string of this
\* model has them.)  ok = FALSE is the ValueError.
parse_float(s) ==
    LET t    == space_rstrip(space_lstrip(s))
        sgn  == t # <<>> /\ t[1] \in {"+", "-"}
        neg  == t # <<>> /\ t[1] = "-"
        body == IF sgn THEN Tail(t) ELSE t
        low  == str_lower(body)
        dots == { i \in DOMAIN body : body[i] = "." }
        dot  == IF dots = {} THEN Len(body) + 1 ELSE CHOOSE i \in dots : TRUE
        ip   == SubSeq(body, 1, dot - 1)
        fr   == str_rstrip(SubSeq(body, dot + 1, Len(body)), "0")
    IN  IF low \in { <<"i","n","f">>, <<"i","n","f","i","n","i","t","y">> }
        THEN [ok |-> TRUE, v |-> PyInf(neg)]
        ELSE IF low = <<"n","a","n">> THEN [ok |-> TRUE, v |-> PyNaN]
        ELSE IF /\ \A i \in DOMAIN body : IsDigit(body[i]) \/ body[i] = "."
                /\ Cardinality(dots) <= 1
                /\ \E i \in DOMAIN body : IsDigit(body[i])
        THEN [ok |-> TRUE, v |-> PyFloat(neg, DigitsVal(ip), fr)]
        ELSE [ok |-> FALSE]

\* float(value): ok = FALSE is the ValueError or TypeError
py_float(v) ==
    CASE v.k = "float" -> [ok |-> TRUE, v |-> v]
      [] v.k = "int"   -> [ok |-> TRUE, v |-> PyFloat(v.neg /\ (v.hi # 0 \/ v.lo # 0),
                                                      v.hi * 65536 + v.lo, <<>>)]
      [] v.k \in {"bool", "np_bool"} ->
             [ok |-> TRUE, v |-> PyFloat(FALSE, IF v.b THEN 1 ELSE 0, <<>>)]
      [] v.k \in {"str", "bytes"} -> parse_float(v.s)
      [] OTHER -> [ok |-> FALSE]

\* a null test that takes no value for null
NeverNa(v) == FALSE

\* pd.isna(value): None, NaN (and NaT, which this model does not tell from NaN)
pd_isna(v) == v.k = "None" \/ (v.k = "float" /\ v.cls = "nan")

\* pd.api.types.is_numeric_dtype(type(value)): numbers and booleans
is_numeric_dtype_of(v) == v.k \in {"int", "float", "bool", "np_bool"}

\* isinstance(value, bool): numpy's bool_ is no bool
isinstance_bool(v) == v.k = "bool"

\* isinstance(value, (datetime, pd.Timestamp)) and isinstance(value, (datetime,))
isinstance_datetime(v) == v.k = "datetime"

isinstance_str(v) == v.k = "str"

(***************************************************************************)
(* SQL types and literals                                                  *)
(***************************************************************************)

\* a type name with its parameters: TEXT is <<>>, VARCHAR(255) is <<255>>
SqlType(t) == [t |-> t, args |-> <<>>]

SqlTypeN(t, args) == [t |-> t, args |-> args]

\* 'X' in col_type, for X one of the type names: no type name of this
\* model contains another
type_contains(ct, sub) == ct.t = sub

NULL == <<"N","U","L","L">>

SQL_TRUE == <<"T","R","U","E">>

SQL_FALSE == <<"F","A","L","S","E">>

\* what a call that lets an exception out returns in this model
Raised == <<"<raised>">>

\* f"'{s}'"
quoted(s) == <<"'">> \o s \o <<"'">>

\* the value wrapped without doubling its quotes
ReplaceLeftOut(s) == s

\* s.replace("'", "''")
RECURSIVE replace_quotes(_)
replace_quotes(s) ==
    IF s = <<>> THEN <<>>
    ELSE (IF s[1] = "'" THEN <<"'", "'">> ELSE <<s[1]>>) \o replace_quotes(Tail(s))

\* try: return str(float(value)) / except: return 'NULL'
try_float_str(v) ==
    IF py_float(v).ok THEN float_str(py_float(v).v) ELSE NULL

(***************************************************************************)
(* Value Escaper of the CSV and XLSX converters: escape_sql_value          *)
(***************************************************************************)

csv_true_strings ==
    { <<"t","r","u","e">>, <<"1">>, <<"y","e","s">>, <<"s","i","m">> }

escape_sql_value(v, ct) ==
    IF pd_isna(v) \/ v.k = "None" THEN NULL
    ELSE IF ct = SqlType("BOOLEAN")
    THEN IF isinstance_bool(v) THEN (IF v.b THEN SQL_TRUE ELSE SQL_FALSE)
         ELSE IF str_lower(py_str(v)) \in csv_true_strings THEN SQL_TRUE
         ELSE SQL_FALSE
    ELSE IF type_contains(ct, "INTEGER") \/ type_contains(ct, "BIGINT")
              \/ ct = SqlType("NUMERIC")
    THEN IF is_numeric_dtype_of(v) THEN py_str(v) ELSE try_float_str(v)
    ELSE IF ct = SqlType("TIMESTAMP")
    THEN IF isinstance_datetime(v) THEN quoted(strftime_timestamp(v))
         ELSE IF isinstance_str(v) THEN quoted(v.s)
         ELSE NULL
    ELSE quoted(replace_quotes(py_str(v)))

(***************************************************************************)
(* Value Escaper of the DBF converters: escape_sql_value                   *)
(***************************************************************************)

dbc_true_strings ==
    { <<"T">>, <<"T","R","U","E">>, <<"1">>, <<"Y">>, <<"Y","E","S">>, <<"S">>,
      <<"S","I","M">> }

dbc_escape_sql_value(v, ft) ==
    LET field_type == UpperChar(ft) IN
    IF v.k = "None" THEN NULL
    ELSE IF field_type = "L"
    THEN IF isinstance_bool(v) THEN (IF v.b THEN SQL_TRUE ELSE SQL_FALSE)
         ELSE IF str_upper(py_str(v)) \in dbc_true_strings THEN SQL_TRUE
         ELSE SQL_FALSE
    ELSE IF field_type = "D"
    THEN IF isinstance_datetime(v) THEN quoted(strftime_date(v))
         ELSE IF isinstance_str(v) THEN quoted(v.s)
         ELSE NULL
    ELSE IF field_type = "T"
    THEN IF isinstance_datetime(v) THEN quoted(strftime_timestamp(v))
         ELSE IF isinstance_str(v) THEN quoted(v.s)
         ELSE NULL
    ELSE IF field_type \in {"N", "F"}
    THEN IF v = PyStr(<<>>) \/ v.k = "None" THEN NULL ELSE try_float_str(v)
    ELSE quoted(replace_quotes(py_str(v)))

(***************************************************************************)
(* Type Inferencer: infer_postgres_type                                    *)
(*                                                                         *)
(* A pandas Series is its dtype and its cells.  A missing cell is NaN      *)
(* (pandas' NA and NaT are not told from it).                              *)
(***************************************************************************)

Series(dtype, cells) == [dtype |-> dtype, cells |-> cells]

\* series.dropna()
dropna(cells) == SelectSeq(cells, LAMBDA v : ~pd_isna(v))

\* a null test of the column that finds no missing cell
NoneMissing(cells) == FALSE

\* series.isna().any()
isna_any(cells) == \E i \in DOMAIN cells : pd_isna(cells[i])

\* a <= b on two-limb integers
MagLeq(a, b) == a.hi < b.hi \/ (a.hi = b.hi /\ a.lo <= b.lo)

IntLeq(a, b) ==
    IF a.neg # b.neg THEN a.neg
    ELSE IF a.neg THEN MagLeq(b, a) ELSE MagLeq(a, b)

\* the first value of the column taken for its largest
FirstCell(cells) == cells[1]

\* non_null.max() and non_null.min() of an integer column
int_max(cells) == CHOOSE v \in Range(cells) : \A w \in Range(cells) : IntLeq(w, v)

int_min(cells) == CHOOSE v \in Range(cells) : \A w \in Range(cells) : IntLeq(v, w)

\* -2147483648 and 2147483647
INT32_MIN == BigInt(TRUE, 32768, 0)

INT32_MAX == BigInt(FALSE, 32767, 65535)

Max(a, b) == IF a >= b THEN a ELSE b

\* non_null.astype(str).str.len().max()
max_str_len(cells) ==
    CHOOSE n \in { Len(py_str(cells[i])) : i \in DOMAIN cells } :
        \A i \in DOMAIN cells : Len(py_str(cells[i])) <= n

is_integer_dtype(ser) == ser.dtype = "int64"

is_float_dtype(ser) == ser.dtype = "float64"

is_bool_dtype(ser) == ser.dtype = "bool"

is_datetime64_any_dtype(ser) == ser.dtype = "datetime64"

\* pd.api.types.is_string_dtype(series): before pandas 2 every object column;
\* from pandas 2 on an object column whose cells are all strings (a missing
\* cell is no string)
is_string_dtype(ser, version) ==
    /\ ser.dtype = "object"
    /\ version >= 2 => \A i \in DOMAIN ser.cells : ser.cells[i].k = "str"

\* the dtype tests made before the test for an empty column
InferDtypeFirst(ser, version) ==
    LET non_null == dropna(ser.cells) IN
    IF is_float_dtype(ser) THEN SqlType("NUMERIC")
    ELSE IF is_bool_dtype(ser) THEN SqlType("BOOLEAN")
    ELSE IF is_datetime64_any_dtype(ser) THEN SqlType("TIMESTAMP")
    ELSE IF Len(non_null) = 0 THEN SqlType("TEXT")
    ELSE IF is_integer_dtype(ser)
    THEN IF IntLeq(INT32_MIN, int_min(non_null)) /\ IntLeq(int_max(non_null), INT32_MAX)
         THEN SqlType("INTEGER")
         ELSE SqlType("BIGINT")
    ELSE IF is_string_dtype(ser, version)
    THEN IF max_str_len(non_null) <= 255
         THEN SqlTypeN("VARCHAR", <<Max(255, max_str_len(non_null))>>)
         ELSE SqlType("TEXT")
    ELSE SqlType("TEXT")

infer_postgres_type(ser, version) ==
    LET non_null == dropna(ser.cells) IN
    IF Len(non_null) = 0 THEN SqlType("TEXT")
    ELSE IF is_integer_dtype(ser)
    THEN IF IntLeq(INT32_MIN, int_min(non_null)) /\ IntLeq(int_max(non_null), INT32_MAX)
         THEN SqlType("INTEGER")
         ELSE SqlType("BIGINT")
    ELSE IF is_float_dtype(ser) THEN SqlType("NUMERIC")
    ELSE IF is_bool_dtype(ser) THEN SqlType("BOOLEAN")
    ELSE IF is_datetime64_any_dtype(ser) THEN SqlType("TIMESTAMP")
    ELSE IF is_string_dtype(ser, version)
    THEN IF max_str_len(non_null) <= 255
         THEN SqlTypeN("VARCHAR", <<Max(255, max_str_len(non_null))>>)
         ELSE SqlType("TEXT")
    ELSE SqlType("TEXT")

\* csv_to_sql, the type and nullability of one column: a frame without rows
\* (df.empty) declares TEXT NULL, another one infers
csv_column_decl(ser, version) ==
    IF Len(ser.cells) = 0
    THEN [type |-> SqlType("TEXT"), nullable |-> "NULL"]
    ELSE [type |-> infer_postgres_type(ser, version),
          nullable |-> IF isna_any(ser.cells) THEN "NULL" ELSE "NOT NULL"]


(***************************************************************************)
(* DBF field mapping: dbc_type_to_postgres                                 *)
(***************************************************************************)

\* the mapping without the upper() of the type code
MapCaseSensitive(dbc_type, length, decimal) ==
    IF dbc_type = "C"
    THEN IF length > 0
         THEN IF length <= 255 THEN SqlTypeN("VARCHAR", <<length>>) ELSE SqlType("TEXT")
         ELSE SqlType("TEXT")
    ELSE IF dbc_type = "N"
    THEN IF decimal > 0 THEN SqlTypeN("NUMERIC", <<length, decimal>>)
         ELSE IF length > 0
         THEN IF length <= 10 THEN SqlType("INTEGER") ELSE SqlType("BIGINT")
         ELSE SqlType("NUMERIC")
    ELSE IF dbc_type = "F" THEN SqlType("NUMERIC")
    ELSE IF dbc_type = "D" THEN SqlType("DATE")
    ELSE IF dbc_type = "T" THEN SqlType("TIMESTAMP")
    ELSE IF dbc_type = "L" THEN SqlType("BOOLEAN")
    ELSE IF dbc_type = "M" THEN SqlType("TEXT")
    ELSE IF dbc_type = "B" THEN SqlType("BYTEA")
    ELSE SqlType("TEXT")

dbc_type_to_postgres(dbc_type, length, decimal) ==
    LET t == UpperChar(dbc_type) IN
    IF t = "C"
    THEN IF length > 0
         THEN IF length <= 255 THEN SqlTypeN("VARCHAR", <<length>>) ELSE SqlType("TEXT")
         ELSE SqlType("TEXT")
    ELSE IF t = "N"
    THEN IF decimal > 0 THEN SqlTypeN("NUMERIC", <<length, decimal>>)
         ELSE IF length > 0
         THEN IF length <= 10 THEN SqlType("INTEGER") ELSE SqlType("BIGINT")
         ELSE SqlType("NUMERIC")
    ELSE IF t = "F" THEN SqlType("NUMERIC")
    ELSE IF t = "D" THEN SqlType("DATE")
    ELSE IF t = "T" THEN SqlType("TIMESTAMP")
    ELSE IF t = "L" THEN SqlType("BOOLEAN")
    ELSE IF t = "M" THEN SqlType("TEXT")
    ELSE IF t = "B" THEN SqlType("BYTEA")
    ELSE SqlType("TEXT")

(***************************************************************************)
(* The to-SQL converters                                                   *)
(*                                                                         *)
(* The text a converter writes is "".join(sql_lines): here the sequence of *)
(* its pieces, a joined list laid out piece by piece with its separator.   *)
(***************************************************************************)

\* a fixed piece of text
Text(t) == [kind |-> "text", text |-> t]

\* a '-- ...' comment line
Note(t) == [kind |-> "note", text |-> t]

\* f"CREATE TABLE IF NOT EXISTS {table_name} (\n"
CreateOpen(table) == [kind |-> "create", table |-> table]

\* f"    {col_name} {col_type} {nullable}"
ColDef(col, type, nullable) ==
    [kind |-> "coldef", name |-> col, type |-> type, nullable |-> nullable]

\* f"COMMENT ON COLUMN {table_name}.{col_name} IS '{original_name}';\n"
CommentOn(table, col, original) ==
    [kind |-> "comment_on", table |-> table, name |-> col, original |-> original]

\* f"INSERT INTO {table_name} ({col_names_str}) VALUES ({values_str});\n"
Insert(table, cols, values) ==
    [kind |-> "insert", table |-> table, cols |-> cols, values |-> values]

\* sep.join(items), piece by piece
RECURSIVE join(_, _)
join(sep, items) ==
    IF items = <<>> THEN <<>>
    ELSE IF Len(items) = 1 THEN items
    ELSE <<items[1], Text(sep)>> \o join(sep, Tail(items))

\* the column definitions appended one after the other, nothing between
appended(items) == items

\* the concatenation of a sequence of sequences
RECURSIVE Flatten(_)
Flatten(ss) == IF ss = <<>> THEN <<>> ELSE ss[1] \o Flatten(Tail(ss))

\* the rows are handled in batches of this many
batch_size == 1000

\* range(0, total_rows, batch_size) and df.iloc[batch_start:batch_end]: the
\* row numbers of the batches, one batch after the other
RECURSIVE batch_rows(_, _)
batch_rows(batch_start, total_rows) ==
    IF batch_start >= total_rows THEN <<>>
    ELSE LET batch_end == IF batch_start + batch_size <= total_rows
                          THEN batch_start + batch_size ELSE total_rows
         IN  [i \in 1..(batch_end - batch_start) |-> batch_start + i]
                 \o batch_rows(batch_start + batch_size, total_rows)

\* len(df): every column of a frame has as many cells
frame_len(cols) == IF cols = <<>> THEN 0 ELSE Len(cols[1].ser.cells)

\* the value iterrows() hands out for one cell: a row over integer and float
\* columns only is a float row, its integers become floats
row_value(cols, r, c) ==
    LET v == cols[c].ser.cells[r] IN
    IF /\ \A j \in DOMAIN cols : cols[j].ser.dtype \in {"int64", "float64"}
       /\ \E j \in DOMAIN cols : cols[j].ser.dtype = "float64"
       /\ v.k = "int"
    THEN py_float(v).v
    ELSE v

\* the column type and nullability of xlsx_to_psql: always inferred
xlsx_column_decl(ser, version) ==
    [type |-> infer_postgres_type(ser, version),
     nullable |-> IF isna_any(ser.cells) THEN "NULL" ELSE "NOT NULL"]

\* the INSERT statements of a frame, one per row, batch after batch
frame_inserts(table, cols, decls) ==
    LET rows == batch_rows(0, frame_len(cols)) IN
    [k \in DOMAIN rows |->
        Insert(table,
               [c \in DOMAIN cols |-> sanitize_name(cols[c].name)],
               [c \in DOMAIN cols |->
                   escape_sql_value(row_value(cols, rows[k], c), decls[c].type)])]

\* what open(sql_path, mode) and the writes leave in the file: appended
\* after a "\n" when the file exists, written alone when it does not
append_file(file, lines) ==
    IF file.exists
    THEN [exists |-> TRUE, text |-> file.text \o <<Text("\n")>> \o lines]
    ELSE [exists |-> TRUE, text |-> lines]

\* open(sql_path, 'w'): the file holds the new text alone
write_file(file, lines) == [exists |-> TRUE, text |-> lines]

\* csv_to_psql_with_data.csv_to_sql: the text generated for a frame
csv_with_data_lines(table, cols, version) ==
    LET decls == [c \in DOMAIN cols |-> csv_column_decl(cols[c].ser, version)]
        names == [c \in DOMAIN cols |-> sanitize_name(cols[c].name)]
    IN  <<Note("-- Tabela gerada a partir de:"), Note("-- Gerado em:")>>
          \o (IF frame_len(cols) = 0 THEN <<Note("-- Arquivo contem apenas cabecalho")>>
              ELSE <<>>)
          \o <<Text("\n"), CreateOpen(table)>>
          \o appended([c \in DOMAIN cols |->
                          ColDef(names[c], decls[c].type, decls[c].nullable)])
          \o <<Text("\n);\n\n"), Note("-- Comentarios sobre as colunas:")>>
          \o [c \in DOMAIN cols |-> CommentOn(table, names[c], cols[c].name)]
          \o <<Text("\n")>>
          \o (IF frame_len(cols) > 0
              THEN <<Note("-- Dados da tabela:")>> \o frame_inserts(table, cols, decls)
              ELSE <<>>)

\* xlsx_to_psql_with_data.excel_to_sql: the text generated for a frame with rows
xlsx_with_data_lines(table, cols, version) ==
    LET decls == [c \in DOMAIN cols |-> xlsx_column_decl(cols[c].ser, version)]
        names == [c \in DOMAIN cols |-> sanitize_name(cols[c].name)]
    IN  <<Note("-- Tabela gerada a partir de:"), Note("-- Gerado em:"), CreateOpen(table)>>
          \o appended([c \in DOMAIN cols |->
                          ColDef(names[c], decls[c].type, decls[c].nullable)])
          \o <<Text("\n);\n\n"), Note("-- Comentarios sobre as colunas:")>>
          \o [c \in DOMAIN cols |-> CommentOn(table, names[c], cols[c].name)]
          \o <<Text("\n")>>
          \o (IF frame_len(cols) > 0
              THEN <<Note("-- Dados da tabela:")>> \o frame_inserts(table, cols, decls)
              ELSE <<>>)

\* xlsx_to_psql_no_data.excel_to_sql: the text generated for a frame with rows
xlsx_no_data_lines(table, cols, version) ==
    LET decls == [c \in DOMAIN cols |-> xlsx_column_decl(cols[c].ser, version)]
        names == [c \in DOMAIN cols |-> sanitize_name(cols[c].name)]
    IN  <<Note("-- Tabela gerada a partir de:"), CreateOpen(table)>>
          \o join(",\n", [c \in DOMAIN cols |->
                             ColDef(names[c], decls[c].type, decls[c].nullable)])
          \o <<Text("\n);\n"), Note("-- Comentarios sobre as colunas:")>>
          \o [c \in DOMAIN cols |-> CommentOn(table, names[c], cols[c].name)]

\* hasattr(field, attr) on a field descriptor
hasattr(field, attr) == attr \in DOMAIN field

\* the type and nullability dbc_to_sql declares for a field
dbc_column_decl(field) ==
    [type |-> dbc_type_to_postgres(
                  field.type,
                  IF hasattr(field, "length") THEN field.length ELSE 0,
                  IF hasattr(field, "decimal_places") THEN field.decimal_places ELSE 0),
     nullable |-> IF hasattr(field, "not_null") /\ field.not_null
                  THEN "NOT NULL" ELSE "NULL"]

\* record.get(field_info['original'], None): the value of a field that a
\* record lacks is None
record_get(record, c) == IF c \in DOMAIN record THEN record[c] ELSE PyNone

\* the INSERT statements of a DBF table, one per record
dbc_inserts(table, fields, records) ==
    [r \in DOMAIN records |->
        Insert(table,
               [c \in DOMAIN fields |-> sanitize_name(fields[c].name)],
               [c \in DOMAIN fields |->
                   dbc_escape_sql_value(record_get(records[r], c), fields[c].type)])]

\* dbc_to_psql_with_data.dbc_to_sql: the text generated for a DBF table
dbc_with_data_lines(table, fields, records) ==
    LET decls == [c \in DOMAIN fields |-> dbc_column_decl(fields[c])]
        names == [c \in DOMAIN fields |-> sanitize_name(fields[c].name)]
    IN  <<Note("-- Tabela gerada a partir de:"), Note("-- Gerado em:"), CreateOpen(table)>>
          \o appended([c \in DOMAIN fields |->
                          ColDef(names[c], decls[c].type, decls[c].nullable)])
          \o <<Text("\n);\n\n"), Note("-- Comentarios sobre as colunas:")>>
          \o [c \in DOMAIN fields |-> CommentOn(table, names[c], fields[c].name)]
          \o <<Text("\n"), Note("-- Dados da tabela:")>>
          \o dbc_inserts(table, fields, records)

\* dbc_to_psql_no_data.dbc_to_sql: the text generated for a DBF table
dbc_no_data_lines(table, fields) ==
    LET decls == [c \in DOMAIN fields |-> dbc_column_decl(fields[c])]
        names == [c \in DOMAIN fields |-> sanitize_name(fields[c].name)]
    IN  <<Note("-- Tabela gerada a partir de:"), CreateOpen(table)>>
          \o join(",\n", [c \in DOMAIN fields |->
                             ColDef(names[c], decls[c].type, decls[c].nullable)])
          \o <<Text("\n);\n"), Note("-- Comentarios sobre as colunas:")>>
          \o [c \in DOMAIN fields |-> CommentOn(table, names[c], fields[c].name)]

(***************************************************************************)
(* The sanitizer applied to one name                                       *)
(***************************************************************************)

\* The characters names are drawn from: a lower and an upper case letter, a
\* digit, the underscore, a blank and a special character.
NameChars == {"a", "B", "1", "_", " ", "#"}

ExampleNames ==
    { <<"C","l","i","e","n","t"," ","I","D","#","1">>,
      <<"1","2","3","a","b","c">>,
      <<"!","!","!">>,
      <<"t","_","1","2","3">>,
      unnamed,
      <<" ","_","\t","_"," ">> }

Names == StringsUpTo(NameChars, MaxNameLen) \cup ExampleNames

SanInit ==
    /\ name \in Names
    /\ ident = <<>>
    /\ ident2 = <<>>
    /\ san_pc = "input"

SanIdle ==
    /\ name = <<>>
    /\ ident = <<>>
    /\ ident2 = <<>>
    /\ san_pc = "idle"

\* one call sanitize_name(name)
Sanitize ==
    /\ san_pc = "input"
    /\ ident' = sanitize_name(name)
    /\ ident2' = <<>>
    /\ san_pc' = "once"
    /\ UNCHANGED name
    /\ UNCHANGED sanOthers

\* a second call, on the result of the first
Resanitize ==
    /\ san_pc = "once"
    /\ ident2' = sanitize_name(ident)
    /\ san_pc' = "twice"
    /\ UNCHANGED <<name, ident>>
    /\ UNCHANGED sanOthers

(***************************************************************************)
(* The escapers applied to one value                                       *)
(***************************************************************************)

\* The characters cell strings are drawn from: a digit, the point, the minus
\* sign, the single quote, a letter and a blank.
StrChars == {"1", ".", "-", "'", "t", " "}

ExampleStrings ==
    { <<"t","r","u","e">>, <<"T","r","u","e">>, <<"T","R","U","E">>,
      <<"y","e","s">>, <<"s","i","m">>, <<"S","i","m">>, <<"y">>, <<"Y">>, <<"s">>,
      <<"T">>, <<"n","o">>, <<"f","a","l","s","e">>,
      <<"n","o","t","-","a","-","n","u","m","b","e","r">>,
      <<"O","'","B","r","i","e","n">>,
      <<"i","n","f">>, <<"-","I","n","f","i","n","i","t","y">>, <<"n","a","n">>,
      <<"1",".","5">>, <<"0","1","2",".","5","0">>, <<"+","7">>,
      <<"2","0","2","4","-","0","1","-","3","1">> }

CellStrings == StringsUpTo(StrChars, MaxStrLen) \cup ExampleStrings

EscValues ==
    {PyNone, PyNaN, PyInf(FALSE), PyInf(TRUE)}
        \cup { PyBool(b) : b \in BOOLEAN } \cup { NpBool(b) : b \in BOOLEAN }
        \cup { PyInt(n) : n \in {-12, 0, 1, 305} }
        \cup { PyFloat(FALSE, 1, <<"5">>), PyFloat(TRUE, 20, <<>>), PyFloat(FALSE, 0, <<"2","5">>) }
        \cup { PyStr(s) : s \in CellStrings }
        \cup { PyDatetime(2024, 1, 5, 13, 7, 9), PyDatetime(1999, 12, 31, 0, 0, 0) }
        \cup { PyDate(2024, 1, 5) }
        \cup { PyBytes(<<"a","b">>) }

\* the column types the CSV/XLSX escaper is called with, and DATE
CsvColTypes ==
    { SqlType(t) : t \in {"BOOLEAN", "INTEGER", "BIGINT", "NUMERIC", "TIMESTAMP",
                          "DATE", "TEXT"} }
        \cup { SqlTypeN("VARCHAR", <<255>>) }

\* DBF field codes: the known ones, one in lower case and an unknown one
DbcFieldTypes == {"C", "N", "F", "D", "T", "L", "M", "B", "n", "I"}

EscInit ==
    /\ value \in EscValues
    /\ escaper \in {"csv", "dbc"}
    /\ col_type \in IF escaper = "csv" THEN CsvColTypes ELSE DbcFieldTypes
    /\ literal = <<>>
    /\ esc_pc = "input"

EscIdle ==
    /\ value = PyNone
    /\ escaper = "csv"
    /\ col_type = SqlType("TEXT")
    /\ literal = <<>>
    /\ esc_pc = "idle"

\* escape_sql_value(value, col_type) of the CSV/XLSX converters
EscapeCsv ==
    /\ esc_pc = "input"
    /\ escaper = "csv"
    /\ literal' = escape_sql_value(value, col_type)
    /\ esc_pc' = "done"
    /\ UNCHANGED <<value, col_type, escaper>>
    /\ UNCHANGED escOthers

\* escape_sql_value(value, field_type) of the DBF converters
EscapeDbc ==
    /\ esc_pc = "input"
    /\ escaper = "dbc"
    /\ literal' = dbc_escape_sql_value(value, col_type)
    /\ esc_pc' = "done"
    /\ UNCHANGED <<value, col_type, escaper>>
    /\ UNCHANGED escOthers

(***************************************************************************)
(* The inferencer applied to one column                                    *)
(***************************************************************************)

\* a string of n characters
Chars(n) == [i \in 1..n |-> "a"]

\* the cells a column of each dtype is drawn from, NaN the missing cell; an
\* int64 or bool column holds no missing cell (pandas reads a column with
\* one as float64 or object)
CellsOf(dtype) ==
    CASE dtype = "int64" ->
             { PyInt(0), INT32_MAX, BigInt(FALSE, 32768, 0), INT32_MIN,
               BigInt(TRUE, 32768, 1) }
      [] dtype = "float64" -> { PyNaN, PyFloat(FALSE, 1, <<"5">>), PyInf(FALSE) }
      [] dtype = "bool" -> { NpBool(TRUE), NpBool(FALSE) }
      [] dtype = "datetime64" -> { PyNaN, PyDatetime(2024, 1, 5, 13, 7, 9) }
      [] dtype = "object" ->
             { PyNaN, PyStr(<<"x">>), PyStr(Chars(255)), PyStr(Chars(256)),
               PyStr(Chars(300)), PyInt(1), NpBool(TRUE) }
      [] dtype = "timedelta64" -> { PyNaN, PyTimedelta(60) }

Dtypes == {"int64", "float64", "bool", "datetime64", "object", "timedelta64"}

\* the columns of the spec's examples as a frame holds them: the cells kept as
\* strings (a sheet of text cells, a list of strings), and the same cells as
\* pd.read_csv hands them over once it has parsed a numeric column
ExampleSeries ==
    { Series("object", <<PyStr(<<"1">>), PyStr(<<"2">>), PyStr(<<"3">>)>>),
      Series("object", <<PyStr(<<"1",".","5">>), PyStr(<<"2",".","0">>)>>),
      Series("object", <<PyStr(Chars(300))>>),
      Series("object", <<PyStr(<<"x">>), PyNaN>>),
      Series("object", <<PyStr(<<"x">>), PyNone>>),
      Series("int64", <<PyInt(1), PyInt(2), PyInt(3)>>),
      Series("float64", <<PyFloat(FALSE, 1, <<"5">>), PyFloat(FALSE, 2, <<>>)>>) }

AllSeries ==
    UNION { { Series(d, cs) : cs \in StringsUpTo(CellsOf(d), MaxRows) } : d \in Dtypes }
        \cup ExampleSeries

PandasVersions == {1, 2}

NoType == [t |-> "-", args |-> <<>>]

NoDecl == [type |-> NoType, nullable |-> "-"]

EnvInit == pandas \in PandasVersions

EnvIdle == pandas = 2

InfInit ==
    /\ series \in AllSeries
    /\ pg_type = NoType
    /\ col_decl = NoDecl
    /\ inf_pc = "input"

InfIdle ==
    /\ series = Series("object", <<>>)
    /\ pg_type = NoType
    /\ col_decl = NoDecl
    /\ inf_pc = "idle"

\* infer_postgres_type(series)
Infer ==
    /\ inf_pc = "input"
    /\ pg_type' = infer_postgres_type(series, pandas)
    /\ inf_pc' = "inferred"
    /\ UNCHANGED <<series, col_decl>>
    /\ UNCHANGED infOthers

\* the body of csv_to_sql's loop over the columns, for one column
DeclareCsvColumn ==
    /\ inf_pc = "input"
    /\ col_decl' = csv_column_decl(series, pandas)
    /\ inf_pc' = "declared"
    /\ UNCHANGED <<series, pg_type>>
    /\ UNCHANGED infOthers

(***************************************************************************)
(* One converter applied to one source table                               *)
(***************************************************************************)

\* the columns of a frame with n rows: a name, a dtype and n cells
FrameColumns(n) ==
    UNION {
      { [name |-> <<"i","d">>, ser |-> Series("int64", cs)] :
            cs \in [1..n -> {PyInt(1), PyInt(7)}] },
      { [name |-> <<"a"," ","b">>, ser |-> Series("object", cs)] :
            cs \in [1..n -> {PyStr(<<"x","'">>), PyNaN}] },
      { [name |-> <<"a","_","b">>, ser |-> Series("float64", cs)] :
            cs \in [1..n -> {PyFloat(FALSE, 1, <<"5">>), PyNaN}] } }

\* the columns of a source table bear different names
DistinctNames(cs) == \A i, j \in DOMAIN cs : i # j => cs[i].name # cs[j].name

\* the table of the end-to-end scenario: three rows, an integral column id
\* and a text column name with one missing cell, in each of the three rows
ScenarioFrames ==
    { [readable |-> TRUE, stem |-> <<"T","a","b"," ","1">>,
       cols |-> << [name |-> <<"i","d">>,
                    ser |-> Series("int64", <<PyInt(1), PyInt(2), PyInt(3)>>)],
                   [name |-> <<"n","a","m","e">>,
                    ser |-> Series("object",
                                [r \in 1..3 |-> IF r = k THEN PyNaN
                                                ELSE PyStr(<<"x", "'">>)])] >>] :
          k \in 1..3 }

\* a frame: what pd.read_csv or pd.read_excel returned, or not readable
Frames ==
    UNION { { [readable |-> TRUE, stem |-> <<"T","a","b"," ","1">>, cols |-> cs] :
                  cs \in { x \in StringsUpTo(FrameColumns(n), MaxCols) : DistinctNames(x) } } :
            n \in 0..MaxRows }
        \cup { [readable |-> FALSE, stem |-> <<"T","a","b"," ","1">>, cols |-> <<>>] }
        \cup ScenarioFrames

\* the field descriptors of a DBF table, with the attributes dbfread gives
\* them: name, type, length and decimal_count
DbfFields ==
    { [name |-> <<"I","D">>, type |-> "N", length |-> 10, decimal_count |-> 0],
      [name |-> <<"N","O","M","E">>, type |-> "C", length |-> 20, decimal_count |-> 0],
      [name |-> <<"D","T">>, type |-> "D", length |-> 8, decimal_count |-> 0] }

\* the values a record holds for a field of each type
DbfValues(type) ==
    CASE type = "N" -> {PyInt(5), PyNone}
      [] type = "C" -> {PyStr(<<"x","'">>), PyNone}
      [] type = "D" -> {PyDate(2024, 1, 5), PyNone}

\* the records of a table: one value per field
DbfRecords(fields) ==
    { rec \in [DOMAIN fields -> UNION { DbfValues(t) : t \in {"N", "C", "D"} }] :
          \A c \in DOMAIN fields : rec[c] \in DbfValues(fields[c].type) }

DbfTables ==
    UNION { { [readable |-> TRUE, stem |-> <<"T","a","b"," ","1">>, fields |-> fs,
               records |-> rs] :
                  rs \in StringsUpTo(DbfRecords(fs), MaxRows) } :
            fs \in { x \in StringsUpTo(DbfFields, MaxCols) : DistinctNames(x) } }
        \cup { [readable |-> FALSE, stem |-> <<"T","a","b"," ","1">>, fields |-> <<>>,
                records |-> <<>>] }

FrameVariants == {"csv_with_data", "xlsx_with_data", "xlsx_no_data"}

DbfVariants == {"dbc_with_data", "dbc_no_data"}

\* the output file before the call: absent, or holding the header of the run
NoFile == [exists |-> FALSE, text |-> <<>>]

HeaderFile == [exists |-> TRUE, text |-> <<Note("-- Script SQL gerado")>>]

ConvInit ==
    /\ variant \in FrameVariants \cup DbfVariants
    /\ src \in IF variant \in FrameVariants THEN Frames ELSE DbfTables
    /\ sql_file \in {NoFile, HeaderFile}
    /\ ret = "-"
    /\ conv_pc = "input"

ConvIdle ==
    /\ variant = "-"
    /\ src = [readable |-> FALSE, stem |-> <<>>, cols |-> <<>>]
    /\ sql_file = NoFile
    /\ ret = "-"
    /\ conv_pc = "idle"

\* csv_to_psql_with_data.csv_to_sql(csv_path, sql_path)
CsvToSqlWithData ==
    /\ conv_pc = "input"
    /\ variant = "csv_with_data"
    /\ IF ~src.readable \/ Len(src.cols) = 0
       THEN /\ ret' = "False"
            /\ UNCHANGED sql_file
       ELSE /\ sql_file' = append_file(sql_file,
                               csv_with_data_lines(sanitize_name(src.stem), src.cols, pandas))
            /\ ret' = "True"
    /\ conv_pc' = "done"
    /\ UNCHANGED <<variant, src>>
    /\ UNCHANGED convOthers

\* xlsx_to_psql_with_data.excel_to_sql(excel_path, sql_path)
ExcelToSqlWithData ==
    /\ conv_pc = "input"
    /\ variant = "xlsx_with_data"
    /\ IF ~src.readable \/ Len(src.cols) = 0 \/ frame_len(src.cols) = 0
       THEN UNCHANGED sql_file
       ELSE sql_file' = write_file(sql_file,
                            xlsx_with_data_lines(sanitize_name(src.stem), src.cols, pandas))
    /\ ret' = "None"
    /\ conv_pc' = "done"
    /\ UNCHANGED <<variant, src>>
    /\ UNCHANGED convOthers

\* xlsx_to_psql_no_data.excel_to_sql(excel_path, sql_path)
ExcelToSqlNoData ==
    /\ conv_pc = "input"
    /\ variant = "xlsx_no_data"
    /\ IF ~src.readable \/ Len(src.cols) = 0 \/ frame_len(src.cols) = 0
       THEN UNCHANGED sql_file
       ELSE sql_file' = write_file(sql_file,
                            xlsx_no_data_lines(sanitize_name(src.stem), src.cols, pandas))
    /\ ret' = "None"
    /\ conv_pc' = "done"
    /\ UNCHANGED <<variant, src>>
    /\ UNCHANGED convOthers

\* dbc_to_psql_with_data.dbc_to_sql(dbc_path, sql_path)
DbcToSqlWithData ==
    /\ conv_pc = "input"
    /\ variant = "dbc_with_data"
    /\ IF ~src.readable
       THEN /\ ret' = "False"
            /\ UNCHANGED sql_file
       ELSE /\ sql_file' = append_file(sql_file,
                               dbc_with_data_lines(sanitize_name(src.stem), src.fields,
                                                   src.records))
            /\ ret' = "True"
    /\ conv_pc' = "done"
    /\ UNCHANGED <<variant, src>>
    /\ UNCHANGED convOthers

\* dbc_to_psql_no_data.dbc_to_sql(dbc_path, sql_path)
DbcToSqlNoData ==
    /\ conv_pc = "input"
    /\ variant = "dbc_no_data"
    /\ IF ~src.readable
       THEN /\ ret' = "False"
            /\ UNCHANGED sql_file
       ELSE /\ sql_file' = append_file(sql_file,
                               dbc_no_data_lines(sanitize_name(src.stem), src.fields))
            /\ ret' = "True"
    /\ conv_pc' = "done"
    /\ UNCHANGED <<variant, src>>
    /\ UNCHANGED convOthers

(***************************************************************************)
(* dbc_type_to_postgres applied to one field descriptor                    *)
(***************************************************************************)

\* the type codes handed over: the codes of the mapping in both cases, and
\* codes it does not know
TypeCodes == {"C", "N", "F", "D", "T", "L", "M", "B", "c", "n", "f", "d", "t", "l",
              "m", "b", "X", "I", "0", "y"}

\* the lengths and decimal counts: the edges of the mapping's tests
FieldLengths == {0, 1, 10, 11, 19, 255, 256}

FieldDecimals == {0, 1, 2}

DbcFieldDescriptors ==
    [type : TypeCodes, length : FieldLengths, decimal : FieldDecimals]

MapInit ==
    /\ dbc_field \in DbcFieldDescriptors
    /\ dbc_pg = NoType
    /\ map_pc = "input"

MapIdle ==
    /\ dbc_field = [type |-> "C", length |-> 0, decimal |-> 0]
    /\ dbc_pg = NoType
    /\ map_pc = "idle"

\* dbc_type_to_postgres(dbc_type, length, decimal)
MapDbcType ==
    /\ map_pc = "input"
    /\ dbc_pg' = dbc_type_to_postgres(dbc_field.type, dbc_field.length, dbc_field.decimal)
    /\ map_pc' = "done"
    /\ UNCHANGED dbc_field
    /\ UNCHANGED mapOthers

(***************************************************************************)
(* The schema extractor: main's loop over the tables of one schema         *)
(*                                                                         *)
(* Each query of a table either succeeds, fails with an SQL error (the     *)
(* transaction of the connection is then aborted and every later query on  *)
(* it fails: the script never rolls back nor sets autocommit), or finds    *)
(* the connection lost (the query raises and conn.closed is set).          *)
(*                                                                         *)
(* The schema may have no table, and its file schema-<schema>.sql may be   *)
(* there already, left by an earlier run.                                  *)
(***************************************************************************)

\* the most tables the schema has
MaxTables == 2

\* what the catalog holds for the k-th table: the odd ones bear a primary
\* key, a foreign key, a unique constraint and an index, the even ones none
TableDef(k) ==
    IF k % 2 = 1
    THEN [colunas |-> <<"id", "ref">>, primary_keys |-> <<"id">>,
          foreign_keys |-> <<"fk_ref">>, unique |-> <<"uq_ref">>, indices |-> <<"ix_ref">>]
    ELSE [colunas |-> <<"id">>, primary_keys |-> <<>>, foreign_keys |-> <<>>,
          unique |-> <<>>, indices |-> <<>>]

Catalogs == { [k \in 1..n |-> TableDef(k)] : n \in 0..MaxTables }

\* how a query ends: well, with an SQL error, or on a lost connection
QueryOutcomes == {"ok", "error", "drop"}

Steps == {"colunas", "primary_keys", "foreign_keys", "unique", "indices"}

\* cur.execute(...) raises: on a closed connection, in an aborted
\* transaction, or when the query itself fails
Raises(c, f) == c # "open" \/ f # "ok"

\* the connection after the query
ConnAfter(c, f) ==
    IF c # "open" THEN c
    ELSE IF f = "ok" THEN "open"
    ELSE IF f = "error" THEN "aborted"
    ELSE "closed"

\* how the step is recorded: "ok"; "closed" when conn.closed was found set
\* and the query not run; "dropped" when the query found the connection
\* lost; "error" for any other exception
Fault(c, f) ==
    IF c = "closed" THEN "closed"
    ELSE IF c = "aborted" THEN "error"
    ELSE IF f = "ok" THEN "ok"
    ELSE IF f = "error" THEN "error"
    ELSE "dropped"

\* nothing fetched yet
NoResults ==
    [colunas |-> <<>>, primary_keys |-> <<>>, foreign_keys |-> <<>>, unique |-> <<>>,
     indices |-> <<>>, faults |-> [s \in Steps |-> "not_run"]]

\* the file schema-<schema>.sql as an earlier run left it: one block
StaleSchemaFile == << [table |-> 0, results |-> NoResults] >>

\* return {'primary_keys': [], 'foreign_keys': [], 'unique': []}
constraints_empty(g) ==
    [g EXCEPT !.primary_keys = <<>>, !.foreign_keys = <<>>, !.unique = <<>>]

\* the for loop goes to the next table, or main ends: finally conn.close()
next_pc == IF tabela = Len(catalog) THEN "done" ELSE "table"

conn_at_return(c) == IF tabela = Len(catalog) THEN "closed" ELSE c

ExtInit ==
    /\ catalog \in Catalogs
    /\ conn = "open"
    /\ tabela = 1
    /\ got = NoResults
    /\ schema_file \in {<<>>, StaleSchemaFile}
    /\ total_tabelas = 0
    /\ total_erros = 0
    /\ ext_log = <<>>
    /\ ext_pc = "schema"

ExtIdle ==
    /\ catalog = <<>>
    /\ conn = "closed"
    /\ tabela = 0
    /\ got = NoResults
    /\ schema_file = <<>>
    /\ total_tabelas = 0
    /\ total_erros = 0
    /\ ext_log = <<>>
    /\ ext_pc = "idle"

\* main, the top of the loop over the schemas: a schema without tables is
\* passed over (continue) and main ends; otherwise the file of the schema is
\* removed if it exists
ObterTabelas ==
    /\ ext_pc = "schema"
    /\ IF catalog = <<>>
       THEN /\ ext_pc' = "done"
            /\ conn' = "closed"
            /\ UNCHANGED schema_file
       ELSE /\ ext_pc' = "table"
            /\ schema_file' = <<>>
            /\ UNCHANGED conn
    /\ UNCHANGED <<catalog, tabela, got, total_tabelas, total_erros, ext_log>>
    /\ UNCHANGED extOthers

\* main, the top of the loop body: a closed connection is replaced by a new
\* one; conectar_banco ends the process (sys.exit, which except Exception
\* does not catch) when it cannot connect
BeginTable ==
    /\ ext_pc = "table"
    /\ got' = NoResults
    /\ IF conn = "closed"
       THEN \E up \in BOOLEAN :
               IF up THEN conn' = "open" /\ ext_pc' = "colunas"
               ELSE conn' = "closed" /\ ext_pc' = "exited"
       ELSE conn' = conn /\ ext_pc' = "colunas"
    /\ UNCHANGED <<catalog, tabela, schema_file, total_tabelas, total_erros, ext_log>>
    /\ UNCHANGED extOthers

\* gerar_create_table: obter_colunas; without columns it returns None and
\* main counts an error
FetchColunas ==
    /\ ext_pc = "colunas"
    /\ \E f \in QueryOutcomes :
          LET colunas == IF Raises(conn, f) THEN <<>> ELSE catalog[tabela].colunas
              g == [got EXCEPT !.colunas = colunas, !.faults.colunas = Fault(conn, f)]
          IN  IF colunas = <<>>
              THEN /\ got' = g
                   /\ total_erros' = total_erros + 1
                   /\ ext_log' = Append(ext_log, [table |-> tabela, written |-> FALSE,
                                                  results |-> g])
                   /\ tabela' = tabela + 1
                   /\ ext_pc' = next_pc
                   /\ conn' = conn_at_return(ConnAfter(conn, f))
              ELSE /\ got' = g
                   /\ ext_pc' = "pk"
                   /\ conn' = ConnAfter(conn, f)
                   /\ UNCHANGED <<tabela, total_erros, ext_log>>
    /\ UNCHANGED <<catalog, schema_file, total_tabelas>>
    /\ UNCHANGED extOthers

\* obter_constraints, up to the primary keys: conn.closed is tested first
FetchPrimaryKeys ==
    /\ ext_pc = "pk"
    /\ \E f \in QueryOutcomes :
          /\ got' = IF Raises(conn, f)
                    THEN [constraints_empty(got) EXCEPT !.faults.primary_keys = Fault(conn, f)]
                    ELSE [got EXCEPT !.primary_keys = catalog[tabela].primary_keys,
                                     !.faults.primary_keys = "ok"]
          /\ ext_pc' = IF Raises(conn, f) THEN "indices" ELSE "fk"
          /\ conn' = ConnAfter(conn, f)
    /\ UNCHANGED <<catalog, tabela, schema_file, total_tabelas, total_erros, ext_log>>
    /\ UNCHANGED extOthers

\* obter_constraints, the foreign keys: an exception leaves through the one
\* except of the function, which returns three empty lists
FetchForeignKeys ==
    /\ ext_pc = "fk"
    /\ \E f \in QueryOutcomes :
          /\ got' = IF Raises(conn, f)
                    THEN [constraints_empty(got) EXCEPT !.faults.foreign_keys = Fault(conn, f)]
                    ELSE [got EXCEPT !.foreign_keys = catalog[tabela].foreign_keys,
                                     !.faults.foreign_keys = "ok"]
          /\ ext_pc' = IF Raises(conn, f) THEN "indices" ELSE "unique"
          /\ conn' = ConnAfter(conn, f)
    /\ UNCHANGED <<catalog, tabela, schema_file, total_tabelas, total_erros, ext_log>>
    /\ UNCHANGED extOthers

\* obter_constraints, the unique constraints
FetchUnique ==
    /\ ext_pc = "unique"
    /\ \E f \in QueryOutcomes :
          /\ got' = IF Raises(conn, f)
                    THEN [constraints_empty(got) EXCEPT !.faults.unique = Fault(conn, f)]
                    ELSE [got EXCEPT !.unique = catalog[tabela].unique,
                                     !.faults.unique = "ok"]
          /\ conn' = ConnAfter(conn, f)
    /\ ext_pc' = "indices"
    /\ UNCHANGED <<catalog, tabela, schema_file, total_tabelas, total_erros, ext_log>>
    /\ UNCHANGED extOthers

\* obter_indices, the end of gerar_create_table, and main: the text is
\* appended to the file of the schema and the table counted
FetchIndices ==
    /\ ext_pc = "indices"
    /\ \E f \in QueryOutcomes :
          LET g == [got EXCEPT !.indices = IF Raises(conn, f) THEN <<>>
                                           ELSE catalog[tabela].indices,
                               !.faults.indices = Fault(conn, f)]
          IN  /\ got' = g
              /\ schema_file' = Append(schema_file, [table |-> tabela, results |-> g])
              /\ ext_log' = Append(ext_log, [table |-> tabela, written |-> TRUE,
                                             results |-> g])
              /\ conn' = conn_at_return(ConnAfter(conn, f))
    /\ total_tabelas' = total_tabelas + 1
    /\ tabela' = tabela + 1
    /\ ext_pc' = next_pc
    /\ UNCHANGED <<catalog, total_erros>>
    /\ UNCHANGED extOthers

(***************************************************************************)
(* A batch run over a directory: processar_csvs and processar_dbc          *)
(***************************************************************************)

\* the most files the source directory holds
MaxFiles == 2

\* the name of the file at place i of the directory
Stem(i) == <<"f", DigitChars[i + 1]>>

\* the frame of a CSV file that converts, and the table of a DBF file that does
GoodFrame ==
    [readable |-> TRUE, stem |-> <<>>,
     cols |-> << [name |-> <<"i","d">>, ser |-> Series("int64", <<PyInt(7)>>)] >>]

GoodTable ==
    [readable |-> TRUE, stem |-> <<>>,
     fields |-> << [name |-> <<"I","D">>, type |-> "N", length |-> 10,
                    decimal_count |-> 0] >>,
     records |-> << <<PyInt(5)>> >>]

\* a file of the directory: its extension, the subdirectory it lies in (the
\* empty name is the directory itself) and what reading it gives: "good",
\* "broken" (every read raises) or "bad_tail" (the read of the first rows
\* passes and the read of the whole file raises)
CsvFiles ==
    [ext : {<<"c","s","v">>}, subdir : {<<>>, <<"S","u","b">>},
     content : {"good", "broken", "bad_tail"}]

DbcFiles ==
    [ext : {<<"d","b","c">>, <<"D","B","F">>}, subdir : {<<>>},
     content : {"good", "broken"}]

Platforms == {"posix", "windows"}

\* Path.glob("*." + pattern) in directory sub: the places of the matching
\* files, in the order of the listing; the match ignores case on Windows
glob(dir, sub, pattern, plat) ==
    LET matches(e) == IF plat = "windows"
                      THEN str_lower(e) = str_lower(pattern)
                      ELSE e = pattern
    IN  SelectSeq([i \in DOMAIN dir |-> i],
                  LAMBDA i : dir[i].subdir = sub /\ matches(dir[i].ext))

\* processar_csvs: the files of the directory, then those of its subdirectory
csv_files(dir, plat) ==
    glob(dir, <<>>, <<"c","s","v">>, plat)
        \o glob(dir, <<"S","u","b">>, <<"c","s","v">>, plat)

\* processar_dbc: the four listings, one after the other
dbc_files(dir, plat) ==
    glob(dir, <<>>, <<"d","b","c">>, plat) \o glob(dir, <<>>, <<"D","B","C">>, plat)
        \o glob(dir, <<>>, <<"d","b","f">>, plat)
        \o glob(dir, <<>>, <<"D","B","F">>, plat)

\* csv_to_sql's table name: the sanitized prefix, when there is one, and the
\* sanitized stem
prefixed_table_name(stem, prefix) ==
    IF prefix = <<>> THEN sanitize_name(stem)
    ELSE sanitize_name(prefix) \o <<"_">> \o sanitize_name(stem)

\* the text a file of the directory adds to the SQL file when it converts
block_of(kind, dir, i, version) ==
    IF kind = "csv"
    THEN csv_with_data_lines(prefixed_table_name(Stem(i), dir[i].subdir),
                             GoodFrame.cols, version)
    ELSE dbc_with_data_lines(sanitize_name(Stem(i)), GoodTable.fields,
                             GoodTable.records)

\* a converter that appends whatever became of the read
AppendRegardless(kind, dir, i, version, file) ==
    append_file(file, block_of(kind, dir, i, version))

\* csv_to_sql / dbc_to_sql on the file at place i: the file afterwards
converted(kind, dir, i, version, file) ==
    IF dir[i].content = "good"
    THEN append_file(file, block_of(kind, dir, i, version))
    ELSE file

RunInit ==
    /\ script \in {"csv", "dbc"}
    /\ platform \in Platforms
    /\ source_dir \in UNION {[1..n -> IF script = "csv" THEN CsvFiles ELSE DbcFiles] :
                                n \in 0..MaxFiles}
    /\ files_found = <<>>
    /\ item = 0
    /\ run_file \in {NoFile, [exists |-> TRUE, text |-> <<Note("-- left by an earlier run")>>]}
    /\ sucessos = 0
    /\ erros = 0
    /\ run_pc = "start"

RunIdle ==
    /\ script = "-"
    /\ platform = "posix"
    /\ source_dir = <<>>
    /\ files_found = <<>>
    /\ item = 0
    /\ run_file = NoFile
    /\ sucessos = 0
    /\ erros = 0
    /\ run_pc = "idle"

\* processar_csvs / processar_dbc up to the loop: the old file is removed, the
\* header written and the directory listed
StartRun ==
    /\ run_pc = "start"
    /\ run_file' = write_file(run_file, HeaderFile.text)
    /\ files_found' = IF script = "csv" THEN csv_files(source_dir, platform)
                      ELSE dbc_files(source_dir, platform)
    /\ item' = 1
    /\ run_pc' = IF files_found' = <<>> THEN "done" ELSE "loop"
    /\ UNCHANGED <<script, platform, source_dir, sucessos, erros, pandas>>
    /\ UNCHANGED runOthers

\* one turn of the loop of processar_csvs: the read of the first rows, then
\* csv_to_sql
ProcessCsv ==
    /\ run_pc = "loop"
    /\ script = "csv"
    /\ LET i == files_found[item]
       IN  IF source_dir[i].content = "broken"
           THEN /\ erros' = erros + 1
                /\ UNCHANGED <<run_file, sucessos>>
           ELSE /\ run_file' = converted("csv", source_dir, i, pandas, run_file)
                /\ IF source_dir[i].content = "good"
                   THEN sucessos' = sucessos + 1 /\ UNCHANGED erros
                   ELSE erros' = erros + 1 /\ UNCHANGED sucessos
    /\ item' = item + 1
    /\ run_pc' = IF item = Len(files_found) THEN "done" ELSE "loop"
    /\ UNCHANGED <<script, platform, source_dir, files_found, pandas>>
    /\ UNCHANGED runOthers

\* one turn of the loop of processar_dbc: dbc_to_sql
ProcessDbc ==
    /\ run_pc = "loop"
    /\ script = "dbc"
    /\ LET i == files_found[item]
       IN  /\ run_file' = converted("dbc", source_dir, i, pandas, run_file)
           /\ IF source_dir[i].content = "good"
              THEN sucessos' = sucessos + 1 /\ UNCHANGED erros
              ELSE erros' = erros + 1 /\ UNCHANGED sucessos
    /\ item' = item + 1
    /\ run_pc' = IF item = Len(files_found) THEN "done" ELSE "loop"
    /\ UNCHANGED <<script, platform, source_dir, files_found, pandas>>
    /\ UNCHANGED runOthers

(***************************************************************************)
(* The schema extractor: the constraint queries, the statements they give  *)
(* and the database these statements build                                 *)
(*                                                                         *)
(* The tables bear primary keys and foreign keys under the names           *)
(* PostgreSQL gives them (<table>_pkey, <table>_<column>_fkey), which are  *)
(* the same for tables of the same name in two schemas.  They bear no      *)
(* unique constraint, index or column default.                             *)
(***************************************************************************)

\* the most columns of a key
MaxKeyCols == 2

KeyColumns == <<"id", "k2", "k3">>

RefColumns == <<"ref", "r2", "r3">>

Take(s, n) == SubSeq(s, 1, n)

\* the tables a database may hold, in the order main goes through them:
\* ORDER BY schema_name, then ORDER BY table_name
Idents ==
    << [schema |-> "a", name |-> "t"], [schema |-> "a", name |-> "u"],
       [schema |-> "b", name |-> "t"] >>

\* whether the table exists, the columns of its primary key (0 for none) and
\* the table its foreign key refers to (0 for none)
TableShapes == [present : BOOLEAN, pk : 0..MaxKeyCols, fk : 0..Len(Idents)]

\* a foreign key refers to the primary key of a table that exists
ValidShapes(sh) ==
    \A i \in DOMAIN Idents :
        /\ ~sh[i].present => sh[i].pk = 0 /\ sh[i].fk = 0
        /\ sh[i].fk > 0 => sh[sh[i].fk].present /\ sh[sh[i].fk].pk > 0

TableOf(sh, i) ==
    [schema |-> Idents[i].schema, name |-> Idents[i].name,
     colunas |-> Take(KeyColumns, MaxKeyCols) \o Take(RefColumns, MaxKeyCols),
     pk |-> Take(KeyColumns, sh[i].pk),
     fks |-> IF sh[i].fk = 0 THEN <<>>
             ELSE << [constraint_name |-> <<Idents[i].name, "ref", "fkey">>,
                      cols |-> Take(RefColumns, sh[sh[i].fk].pk),
                      ref_schema |-> Idents[sh[i].fk].schema,
                      ref_table |-> Idents[sh[i].fk].name,
                      ref_cols |-> Take(KeyColumns, sh[sh[i].fk].pk)] >>]

TablesOf(sh) ==
    LET there == SelectSeq([i \in DOMAIN Idents |-> i], LAMBDA i : sh[i].present)
    IN  [k \in DOMAIN there |-> TableOf(sh, there[k])]

Databases ==
    { TablesOf(sh) : sh \in { s \in [DOMAIN Idents -> TableShapes] : ValidShapes(s) } }

\* the name PostgreSQL gives the primary key of a table
pkey_name(t) == <<t.name, "pkey">>

\* information_schema.table_constraints
table_constraints(d) ==
    Flatten([i \in DOMAIN d |->
        (IF d[i].pk = <<>> THEN <<>>
         ELSE << [constraint_name |-> pkey_name(d[i]), table_schema |-> d[i].schema,
                  table_name |-> d[i].name, constraint_type |-> "PRIMARY KEY"] >>)
        \o [k \in DOMAIN d[i].fks |->
               [constraint_name |-> d[i].fks[k].constraint_name,
                table_schema |-> d[i].schema, table_name |-> d[i].name,
                constraint_type |-> "FOREIGN KEY"]]])

\* information_schema.key_column_usage: the columns of the constrained table
key_column_usage(d) ==
    Flatten([i \in DOMAIN d |->
        [p \in DOMAIN d[i].pk |->
            [constraint_name |-> pkey_name(d[i]), table_schema |-> d[i].schema,
             table_name |-> d[i].name, column_name |-> d[i].pk[p],
             ordinal_position |-> p]]
        \o Flatten([k \in DOMAIN d[i].fks |->
              [p \in DOMAIN d[i].fks[k].cols |->
                  [constraint_name |-> d[i].fks[k].constraint_name,
                   table_schema |-> d[i].schema, table_name |-> d[i].name,
                   column_name |-> d[i].fks[k].cols[p], ordinal_position |-> p]]])])

\* information_schema.constraint_column_usage: for a foreign key, the columns
\* of the table referred to
constraint_column_usage(d) ==
    Flatten([i \in DOMAIN d |->
        [p \in DOMAIN d[i].pk |->
            [constraint_name |-> pkey_name(d[i]), table_schema |-> d[i].schema,
             table_name |-> d[i].name, column_name |-> d[i].pk[p]]]
        \o Flatten([k \in DOMAIN d[i].fks |->
              [p \in DOMAIN d[i].fks[k].ref_cols |->
                  [constraint_name |-> d[i].fks[k].constraint_name,
                   table_schema |-> d[i].fks[k].ref_schema,
                   table_name |-> d[i].fks[k].ref_table,
                   column_name |-> d[i].fks[k].ref_cols[p]]]])])

\* ORDER BY ordinal_position; rows of the same position stay in table order
order_by_position(rows) ==
    Flatten([p \in 1..MaxKeyCols |->
                SelectSeq(rows, LAMBDA r : r.ordinal_position = p)])

\* SELECT DISTINCT: each row once
RECURSIVE Distinct(_)
Distinct(rows) ==
    IF rows = <<>> THEN <<>>
    ELSE LET d == Distinct(SubSeq(rows, 1, Len(rows) - 1))
         IN  IF rows[Len(rows)] \in Range(d) THEN d ELSE Append(d, rows[Len(rows)])

\* ON tc.constraint_name = kcu.constraint_name
JoinOnName(tc, row) == row.constraint_name = tc.constraint_name

\* query_pk: the columns of the key_column_usage rows joined to the primary
\* key of the table
query_pk(d, schema, tbl) ==
    LET tcs == SelectSeq(table_constraints(d),
                         LAMBDA tc : /\ tc.table_schema = schema
                                     /\ tc.table_name = tbl
                                     /\ tc.constraint_type = "PRIMARY KEY")
        joined == Flatten([k \in DOMAIN tcs |->
                     SelectSeq(key_column_usage(d), LAMBDA r : JoinOnName(tcs[k], r))])
        rows == order_by_position(joined)
    IN  [k \in DOMAIN rows |-> rows[k].column_name]

\* query_fk: the foreign keys of the table with the tables they refer to
query_fk(d, schema, tbl) ==
    LET tcs == SelectSeq(table_constraints(d),
                         LAMBDA tc : /\ tc.table_schema = schema
                                     /\ tc.table_name = tbl
                                     /\ tc.constraint_type = "FOREIGN KEY")
        joined == Flatten([k \in DOMAIN tcs |->
                     SelectSeq(constraint_column_usage(d),
                               LAMBDA r : r.constraint_name = tcs[k].constraint_name)])
    IN  Distinct([k \in DOMAIN joined |->
                     [constraint_name |-> joined[k].constraint_name,
                      fk_schema |-> joined[k].table_schema,
                      fk_table |-> joined[k].table_name]])

\* query_local_cols and query_fk_cols, which are the same query: the
\* key_column_usage columns of the constraint of that name on that table
query_key_cols(d, constraint_name, schema, tbl) ==
    LET rows == order_by_position(
                    SelectSeq(key_column_usage(d),
                              LAMBDA r : /\ r.constraint_name = constraint_name
                                         /\ r.table_schema = schema
                                         /\ r.table_name = tbl))
    IN  [k \in DOMAIN rows |-> rows[k].column_name]

\* obter_constraints(conn, schema, tabela)
obter_constraints(d, schema, tbl) ==
    LET fk_constraints == query_fk(d, schema, tbl)
    IN  [primary_keys |-> query_pk(d, schema, tbl),
         foreign_keys |->
            [k \in DOMAIN fk_constraints |->
                [constraint_name |-> fk_constraints[k].constraint_name,
                 column_names |-> query_key_cols(d, fk_constraints[k].constraint_name,
                                                 schema, tbl),
                 fk_schema |-> fk_constraints[k].fk_schema,
                 fk_table |-> fk_constraints[k].fk_table,
                 fk_column_names |-> query_key_cols(d, fk_constraints[k].constraint_name,
                                                    fk_constraints[k].fk_schema,
                                                    fk_constraints[k].fk_table)]]]

\* obter_colunas(conn, schema, tabela)
obter_colunas(d, schema, tbl) ==
    LET found == SelectSeq(d, LAMBDA t : t.schema = schema /\ t.name = tbl)
    IN  IF found = <<>> THEN <<>> ELSE found[1].colunas

\* gerar_create_table(conn, schema, tabela): the statements of the text, none
\* when the table has no columns
gerar_create_table(d, schema, tbl) ==
    LET colunas == obter_colunas(d, schema, tbl)
        constraints == obter_constraints(d, schema, tbl)
    IN  IF colunas = <<>> THEN <<>>
        ELSE << [stmt |-> "create_table", schema |-> schema, table |-> tbl,
                 colunas |-> colunas, primary_key |-> constraints.primary_keys] >>
             \o [k \in DOMAIN constraints.foreign_keys |->
                    [stmt |-> "add_foreign_key", schema |-> schema, table |-> tbl,
                     constraint_name |-> constraints.foreign_keys[k].constraint_name,
                     cols |-> constraints.foreign_keys[k].column_names,
                     ref_schema |-> constraints.foreign_keys[k].fk_schema,
                     ref_table |-> constraints.foreign_keys[k].fk_table,
                     ref_cols |-> constraints.foreign_keys[k].fk_column_names]]

\* the files of the run, one after the other: the statements of every table
script_of(d) ==
    Flatten([i \in DOMAIN d |-> gerar_create_table(d, d[i].schema, d[i].name)])

HasDuplicates(s) == \E i, j \in DOMAIN s : i # j /\ s[i] = s[j]

TableAt(d, schema, tbl) ==
    { i \in DOMAIN d : d[i].schema = schema /\ d[i].name = tbl }

\* PostgreSQL executes one statement: CREATE TABLE IF NOT EXISTS fails when a
\* column is named twice in the primary key; ALTER TABLE ADD CONSTRAINT
\* FOREIGN KEY fails when a column list is empty, when the lists differ in
\* length, when a table is missing, when the name is taken, and when the
\* columns referred to are not the primary key of the table referred to.  A
\* statement that fails leaves the database as it was.
execute(st, d) ==
    IF st.stmt = "create_table"
    THEN IF TableAt(d, st.schema, st.table) # {} \/ HasDuplicates(st.primary_key)
         THEN d
         ELSE Append(d, [schema |-> st.schema, name |-> st.table, colunas |-> st.colunas,
                         pk |-> st.primary_key, fks |-> <<>>])
    ELSE LET here == TableAt(d, st.schema, st.table)
             there == TableAt(d, st.ref_schema, st.ref_table)
         IN  IF \/ here = {} \/ there = {}
                \/ st.cols = <<>> \/ st.ref_cols = <<>>
                \/ Len(st.cols) # Len(st.ref_cols)
                \/ HasDuplicates(st.cols) \/ HasDuplicates(st.ref_cols)
             THEN d
             ELSE LET i == CHOOSE i \in here : TRUE
                      j == CHOOSE j \in there : TRUE
                  IN  IF \/ Range(st.ref_cols) # Range(d[j].pk)
                         \/ ~(Range(st.cols) \subseteq Range(d[i].colunas))
                         \/ \E k \in DOMAIN d[i].fks :
                               d[i].fks[k].constraint_name = st.constraint_name
                      THEN d
                      ELSE [d EXCEPT ![i].fks =
                              Append(@, [constraint_name |-> st.constraint_name,
                                         cols |-> st.cols, ref_schema |-> st.ref_schema,
                                         ref_table |-> st.ref_table,
                                         ref_cols |-> st.ref_cols])]

\* the statements executed in order, a failed one skipped
RECURSIVE run_script(_, _)
run_script(stmts, d) ==
    IF stmts = <<>> THEN d ELSE run_script(Tail(stmts), execute(stmts[1], d))

\* the definition of a table as the extractor sees it: its columns, the
\* columns of its primary key and its foreign keys
extracted_def(d, schema, tbl) ==
    LET c == obter_constraints(d, schema, tbl)
    IN  [colunas |-> obter_colunas(d, schema, tbl),
         primary_keys |-> Range(c.primary_keys),
         foreign_keys |-> { [cols |-> fk.column_names, ref_schema |-> fk.fk_schema,
                             ref_table |-> fk.fk_table, ref_cols |-> fk.fk_column_names] :
                            fk \in Range(c.foreign_keys) }]

NoTableDef == [colunas |-> <<>>, primary_keys |-> {}, foreign_keys |-> {}]

RtInit ==
    /\ db \in Databases
    /\ target \in DOMAIN db
    /\ sql_table = <<>>
    /\ replayed = <<>>
    /\ table_def = NoTableDef
    /\ rt_pc = "extract"

RtIdle ==
    /\ db = <<>>
    /\ target = 0
    /\ sql_table = <<>>
    /\ replayed = <<>>
    /\ table_def = NoTableDef
    /\ rt_pc = "idle"

\* main: gerar_create_table for the table
GerarCreateTable ==
    /\ rt_pc = "extract"
    /\ sql_table' = gerar_create_table(db, db[target].schema, db[target].name)
    /\ rt_pc' = "replay"
    /\ UNCHANGED <<db, target, replayed, table_def>>
    /\ UNCHANGED rtOthers

\* the files of the run are executed on a database without tables
ExecutarScript ==
    /\ rt_pc = "replay"
    /\ replayed' = run_script(script_of(db), <<>>)
    /\ rt_pc' = "again"
    /\ UNCHANGED <<db, target, sql_table, table_def>>
    /\ UNCHANGED rtOthers

\* the table is extracted from the database the script built
ExtrairDeNovo ==
    /\ rt_pc = "again"
    /\ table_def' = extracted_def(replayed, db[target].schema, db[target].name)
    /\ rt_pc' = "done"
    /\ UNCHANGED <<db, target, sql_table, replayed>>
    /\ UNCHANGED rtOthers

(***************************************************************************)
(* The SQL splitter: dividir_sql                                           *)
(***************************************************************************)

\* the most lines of the input file, and the largest block size
MaxLines == 5

MaxBlock == 3

\* the input file does not exist
Missing == [exists |-> FALSE, linhas |-> <<>>]

\* the input files: the lines are told apart by their place in the file
SplitInputs ==
    {Missing} \cup { [exists |-> TRUE, linhas |-> [i \in 1..n |-> i]] : n \in 0..MaxLines }

\* (total_linhas + linhas_por_bloco - 1) // linhas_por_bloco
blocks_announced(total, size) == (total + size - 1) \div size

Min(a, b) == IF a <= b THEN a ELSE b

\* the four lines written at the head of a block file
block_header(parte, de, first, size, total) ==
    [parte |-> parte, de |-> de, first |-> first,
     last |-> Min(first + size - 1, total)]

\* the block is closed without a test of its size
NeverFull(n, size) == FALSE

\* if linhas_no_bloco >= linhas_por_bloco
block_full(n, size) == n >= size

SplitInit ==
    /\ arquivo_origem \in SplitInputs
    /\ linhas_por_bloco \in 1..MaxBlock
    /\ total_linhas = 0
    /\ num_blocos = 0
    /\ bloco_atual = 0
    /\ linhas_no_bloco = 0
    /\ linha_num = 0
    /\ arquivo_destino = FALSE
    /\ blocos = <<>>
    /\ retorno = -1
    /\ split_pc = "start"

SplitIdle ==
    /\ arquivo_origem = Missing
    /\ linhas_por_bloco = 1
    /\ total_linhas = 0
    /\ num_blocos = 0
    /\ bloco_atual = 0
    /\ linhas_no_bloco = 0
    /\ linha_num = 0
    /\ arquivo_destino = FALSE
    /\ blocos = <<>>
    /\ retorno = -1
    /\ split_pc = "idle"

\* dividir_sql up to the loop: the file is looked for, its lines counted and
\* the count of blocks announced
ContarLinhas ==
    /\ split_pc = "start"
    /\ IF arquivo_origem = Missing
       THEN /\ retorno' = 0
            /\ split_pc' = "missing"
            /\ UNCHANGED <<total_linhas, num_blocos, bloco_atual>>
       ELSE /\ total_linhas' = Len(arquivo_origem.linhas)
            /\ num_blocos' = blocks_announced(Len(arquivo_origem.linhas), linhas_por_bloco)
            /\ bloco_atual' = 1
            /\ split_pc' = "loop"
            /\ UNCHANGED retorno
    /\ UNCHANGED <<arquivo_origem, linhas_por_bloco, linhas_no_bloco, linha_num,
                   arquivo_destino, blocos>>
    /\ UNCHANGED splitOthers

\* one turn of the loop over the lines: a block file is opened and its header
\* written when none is being filled, the line is written, and the block is
\* closed when it is full
EscreverLinha ==
    /\ split_pc = "loop"
    /\ linha_num < Len(arquivo_origem.linhas)
    /\ linha_num' = linha_num + 1
    /\ LET opened == IF linhas_no_bloco = 0
                     THEN Append(blocos,
                                 [header |-> block_header(bloco_atual, num_blocos,
                                                          linha_num + 1, linhas_por_bloco,
                                                          total_linhas),
                                  linhas |-> <<>>])
                     ELSE blocos
           k == Len(opened)
       IN  blocos' = [opened EXCEPT ![k].linhas =
                                       Append(@, arquivo_origem.linhas[linha_num + 1])]
    /\ IF block_full(linhas_no_bloco + 1, linhas_por_bloco)
       THEN /\ arquivo_destino' = FALSE
            /\ bloco_atual' = bloco_atual + 1
            /\ linhas_no_bloco' = 0
       ELSE /\ arquivo_destino' = TRUE
            /\ linhas_no_bloco' = linhas_no_bloco + 1
            /\ UNCHANGED bloco_atual
    /\ UNCHANGED <<arquivo_origem, linhas_por_bloco, total_linhas, num_blocos, retorno,
                   split_pc>>
    /\ UNCHANGED splitOthers

\* the end of the loop: the open block is closed and bloco_atual returned
Concluir ==
    /\ split_pc = "loop"
    /\ linha_num = Len(arquivo_origem.linhas)
    /\ arquivo_destino' = FALSE
    /\ retorno' = bloco_atual
    /\ split_pc' = "done"
    /\ UNCHANGED <<arquivo_origem, linhas_por_bloco, total_linhas, num_blocos, bloco_atual,
                   linhas_no_bloco, linha_num, blocos>>
    /\ UNCHANGED splitOthers

\* except Exception: the read of the next line or the opening of the next
\* block file raises; the open block is closed and 0 returned
Falhar ==
    /\ split_pc = "loop"
    /\ linha_num < Len(arquivo_origem.linhas)
    /\ arquivo_destino' = FALSE
    /\ retorno' = 0
    /\ split_pc' = "error"
    /\ UNCHANGED <<arquivo_origem, linhas_por_bloco, total_linhas, num_blocos, bloco_atual,
                   linhas_no_bloco, linha_num, blocos>>
    /\ UNCHANGED splitOthers

(***************************************************************************)
(* Specifications                                                          *)
(***************************************************************************)

InitSanitize ==
    EnvIdle /\ EscIdle /\ InfIdle /\ ConvIdle /\ MapIdle /\ ExtIdle /\ RunIdle
        /\ RtIdle /\ SplitIdle /\ SanInit

NextSanitize == Sanitize \/ Resanitize

SpecSanitize == InitSanitize /\ [][NextSanitize]_vars

InitEscape ==
    EnvIdle /\ SanIdle /\ InfIdle /\ ConvIdle /\ MapIdle /\ ExtIdle /\ RunIdle
        /\ RtIdle /\ SplitIdle /\ EscInit

NextEscape == EscapeCsv \/ EscapeDbc

SpecEscape == InitEscape /\ [][NextEscape]_vars

InitInfer ==
    EnvInit /\ SanIdle /\ EscIdle /\ ConvIdle /\ MapIdle /\ ExtIdle /\ RunIdle
        /\ RtIdle /\ SplitIdle /\ InfInit

NextInfer == Infer \/ DeclareCsvColumn

SpecInfer == InitInfer /\ [][NextInfer]_vars

InitConvert ==
    EnvInit /\ SanIdle /\ EscIdle /\ InfIdle /\ MapIdle /\ ExtIdle /\ RunIdle
        /\ RtIdle /\ SplitIdle /\ ConvInit

NextConvert ==
    \/ CsvToSqlWithData
    \/ ExcelToSqlWithData
    \/ ExcelToSqlNoData
    \/ DbcToSqlWithData
    \/ DbcToSqlNoData

SpecConvert == InitConvert /\ [][NextConvert]_vars

InitDbcType ==
    EnvIdle /\ SanIdle /\ EscIdle /\ InfIdle /\ ConvIdle /\ ExtIdle /\ RunIdle
        /\ RtIdle /\ SplitIdle /\ MapInit

NextDbcType == MapDbcType

SpecDbcType == InitDbcType /\ [][NextDbcType]_vars

InitExtract ==
    EnvIdle /\ SanIdle /\ EscIdle /\ InfIdle /\ ConvIdle /\ MapIdle /\ RunIdle
        /\ RtIdle /\ SplitIdle /\ ExtInit

NextExtract ==
    \/ ObterTabelas
    \/ BeginTable
    \/ FetchColunas
    \/ FetchPrimaryKeys
    \/ FetchForeignKeys
    \/ FetchUnique
    \/ FetchIndices

SpecExtract == InitExtract /\ [][NextExtract]_vars

InitBatch ==
    EnvInit /\ SanIdle /\ EscIdle /\ InfIdle /\ ConvIdle /\ MapIdle /\ ExtIdle
        /\ RtIdle /\ SplitIdle /\ RunInit

InitRoundTrip ==
    EnvIdle /\ SanIdle /\ EscIdle /\ InfIdle /\ ConvIdle /\ MapIdle /\ ExtIdle
        /\ RunIdle /\ SplitIdle /\ RtInit

NextRoundTrip ==
    \/ GerarCreateTable
    \/ ExecutarScript
    \/ ExtrairDeNovo

SpecRoundTrip == InitRoundTrip /\ [][NextRoundTrip]_vars

InitSplit ==
    EnvIdle /\ SanIdle /\ EscIdle /\ InfIdle /\ ConvIdle /\ MapIdle /\ ExtIdle
        /\ RunIdle /\ RtIdle /\ SplitInit

NextSplit ==
    \/ ContarLinhas
    \/ EscreverLinha
    \/ Concluir
    \/ Falhar

SpecSplit == InitSplit /\ [][NextSplit]_vars

\* a run of any of the three batch scripts
InitRuns ==
    \/ InitBatch
    \/ InitExtract

NextRuns ==
    \/ StartRun
    \/ ProcessCsv
    \/ ProcessDbc
    \/ ObterTabelas
    \/ BeginTable
    \/ FetchColunas
    \/ FetchPrimaryKeys
    \/ FetchForeignKeys
    \/ FetchUnique
    \/ FetchIndices

SpecRuns == InitRuns /\ [][NextRuns]_vars

(***************************************************************************)
(* Claims about the Name Sanitizer                                         *)
(***************************************************************************)

IsAlnum(c) == IsUpper(c) \/ IsLower(c) \/ IsDigit(c)

\* The words of a name: the maximal runs of letters and digits that remain
\* when the special characters are deleted, cut at blanks and underscores.
RECURSIVE RefTokens(_, _)
RefTokens(s, cur) ==
    IF s = <<>> THEN (IF cur = <<>> THEN <<>> ELSE <<cur>>)
    ELSE IF IsAlnum(s[1]) THEN RefTokens(Tail(s), Append(cur, s[1]))
    ELSE IF IsSep(s[1])
         THEN (IF cur = <<>> THEN <<>> ELSE <<cur>>) \o RefTokens(Tail(s), <<>>)
         ELSE RefTokens(Tail(s), cur)

RECURSIVE RefJoin(_)
RefJoin(ts) ==
    IF ts = <<>> THEN <<>>
    ELSE IF Len(ts) = 1 THEN ts[1]
    ELSE ts[1] \o <<"_">> \o RefJoin(Tail(ts))

\* the name after delete, collapse, lowercase and trim
RefStripped(s) == [i \in DOMAIN RefJoin(RefTokens(s, <<>>)) |->
                      LowerChar(RefJoin(RefTokens(s, <<>>))[i])]

RefSanitize(s) ==
    IF RefStripped(s) = <<>> THEN unnamed
    ELSE IF IsDigit(RefStripped(s)[1]) THEN <<"t", "_">> \o RefStripped(s)
    ELSE RefStripped(s)

\* C2: for every input string sanitize_name returns a non-empty result made
\* only of [a-z0-9_] that does not start with a digit; a stripped form that
\* starts with a digit carries the prefix t_, an empty one gives 'unnamed'.
C2_SanitizedIsIdentifier ==
    san_pc # "input" =>
        /\ ident # <<>>
        /\ \A i \in DOMAIN ident : IsLower(ident[i]) \/ IsDigit(ident[i]) \/ ident[i] = "_"
        /\ ~IsDigit(ident[1])
        /\ (RefStripped(name) # <<>> /\ IsDigit(RefStripped(name)[1])
               => ident = <<"t", "_">> \o RefStripped(name))
        /\ (RefStripped(name) = <<>> => ident = unnamed)

C2_Witness ==
    /\ san_pc = "once"
    /\ name = <<"#", "1", " ">>
    /\ ident = <<"t", "_", "1">>

\* C3: sanitize_name is idempotent: sanitizing a sanitized name changes nothing.
C3_SanitizeIdempotent ==
    san_pc = "twice" => ident2 = ident

C3_Witness ==
    /\ san_pc = "twice"
    /\ name = <<"1","2","3","a","b","c">>
    /\ ident = <<"t","_","1","2","3","a","b","c">>
    /\ ident2 = ident

\* C4: sanitize_name equals the reference algorithm (delete, collapse,
\* lowercase, trim, prefix t_, unnamed), and the three examples hold.
C4_SanitizeMatchesReference ==
    san_pc # "input" =>
        /\ ident = RefSanitize(name)
        /\ (name = <<"C","l","i","e","n","t"," ","I","D","#","1">>
               => ident = <<"c","l","i","e","n","t","_","i","d","1">>)
        /\ (name = <<"1","2","3","a","b","c">>
               => ident = <<"t","_","1","2","3","a","b","c">>)
        /\ (name = <<"!","!","!">> => ident = unnamed)

C4_Witness ==
    /\ san_pc = "once"
    /\ name = <<"C","l","i","e","n","t"," ","I","D","#","1">>
    /\ ident = <<"c","l","i","e","n","t","_","i","d","1">>

(***************************************************************************)
(* Claims about the Value Escaper                                          *)
(***************************************************************************)

\* the value is null for the escaper at hand: pd.isna or None for the
\* CSV/XLSX one, None for the DBF one
IsNullValue ==
    \/ value = PyNone
    \/ escaper = "csv" /\ value = PyNaN

FieldCode == IF escaper = "dbc" THEN UpperChar(col_type) ELSE "-"

IsTextColumn ==
    \/ escaper = "csv" /\ col_type \in {SqlType("TEXT"), SqlTypeN("VARCHAR", <<255>>)}
    \/ escaper = "dbc" /\ FieldCode \in {"C", "M"}

IsBooleanColumn ==
    \/ escaper = "csv" /\ col_type = SqlType("BOOLEAN")
    \/ escaper = "dbc" /\ FieldCode = "L"

IsNumericColumn ==
    \/ escaper = "csv" /\ col_type \in {SqlType("INTEGER"), SqlType("BIGINT"), SqlType("NUMERIC")}
    \/ escaper = "dbc" /\ FieldCode \in {"N", "F"}

IsDateColumn == escaper = "dbc" /\ FieldCode = "D"

IsTimestampColumn ==
    \/ escaper = "csv" /\ col_type = SqlType("TIMESTAMP")
    \/ escaper = "dbc" /\ FieldCode = "T"

\* the content of a quoted literal with each doubled quote read as one
\* quote; ok = FALSE when a quote stands alone
RECURSIVE Undouble(_)
Undouble(s) ==
    IF s = <<>> THEN [ok |-> TRUE, s |-> <<>>]
    ELSE IF s[1] # "'"
         THEN [ok |-> Undouble(Tail(s)).ok, s |-> <<s[1]>> \o Undouble(Tail(s)).s]
    ELSE IF Len(s) >= 2 /\ s[2] = "'"
         THEN [ok |-> Undouble(Tail(Tail(s))).ok, s |-> <<"'">> \o Undouble(Tail(Tail(s))).s]
    ELSE [ok |-> FALSE, s |-> <<>>]

Inner(lit) == SubSeq(lit, 2, Len(lit) - 1)

QuoteCount(s) == Cardinality({ i \in DOMAIN s : s[i] = "'" })

IsQuotedLiteral(lit) ==
    /\ Len(lit) >= 2
    /\ lit[1] = "'"
    /\ lit[Len(lit)] = "'"

\* C5: a non-null value under a TEXT/VARCHAR column is rendered as its string
\* form with every single quote doubled, wrapped in one pair of quotes; the
\* quotes between the wrapping quotes are even in number; O'Brien gives
\* 'O''Brien'.
C5_TextQuotesDoubled ==
    esc_pc = "done" /\ IsTextColumn /\ ~IsNullValue =>
        /\ IsQuotedLiteral(literal)
        /\ Undouble(Inner(literal)).ok
        /\ Undouble(Inner(literal)).s = py_str(value)
        /\ QuoteCount(Inner(literal)) = 2 * QuoteCount(py_str(value))
        /\ QuoteCount(Inner(literal)) % 2 = 0
        /\ (value = PyStr(<<"O","'","B","r","i","e","n">>)
              => literal = <<"'","O","'","'","B","r","i","e","n","'">>)

C5_Witness ==
    /\ esc_pc = "done"
    /\ escaper = "csv"
    /\ col_type = SqlType("TEXT")
    /\ value = PyStr(<<"O","'","B","r","i","e","n">>)
    /\ literal = <<"'","O","'","'","B","r","i","e","n","'">>

\* C6: a null value is rendered NULL under every target type, before any
\* type-specific rule, in the CSV/XLSX escaper and in the DBF escaper.
C6_NullIsNull ==
    esc_pc = "done" /\ IsNullValue => literal = NULL

C6_Witness ==
    /\ esc_pc = "done"
    /\ escaper = "dbc"
    /\ col_type = "L"
    /\ value = PyNone
    /\ literal = NULL

AffirmativeStrings ==
    { <<"t","r","u","e">>, <<"1">>, <<"y","e","s">>, <<"s","i","m">>, <<"t">>, <<"y">>,
      <<"s">> }

\* C7: under a BOOLEAN column every escaper renders a native boolean by its
\* value, a value whose string form is, whatever its case, one of true, 1,
\* yes, sim, t, y, s as TRUE, and every other non-null value as FALSE.
C7_BooleanRendering ==
    esc_pc = "done" /\ IsBooleanColumn /\ ~IsNullValue =>
        IF value.k \in {"bool", "np_bool"}
        THEN literal = (IF value.b THEN SQL_TRUE ELSE SQL_FALSE)
        ELSE IF [i \in DOMAIN py_str(value) |-> LowerChar(py_str(value)[i])]
                    \in AffirmativeStrings
        THEN literal = SQL_TRUE
        ELSE literal = SQL_FALSE

\* an SQL numeric literal: an optional sign and digits, with an optional
\* point followed by digits
IsNumericLiteral(lit) ==
    LET body == IF lit # <<>> /\ lit[1] = "-" THEN Tail(lit) ELSE lit
        dots == { i \in DOMAIN body : body[i] = "." }
    IN  /\ body # <<>>
        /\ \A i \in DOMAIN body : IsDigit(body[i]) \/ body[i] = "."
        /\ Cardinality(dots) <= 1
        /\ IsDigit(body[1])
        /\ IsDigit(body[Len(body)])

\* C8: under a numeric column the escaper never raises; a value that cannot
\* be parsed as a number is rendered NULL and every other value is rendered
\* as a numeric literal.
C8_NumericRendering ==
    esc_pc = "done" /\ IsNumericColumn /\ ~IsNullValue =>
        /\ literal # Raised
        /\ IF py_float(value).ok THEN IsNumericLiteral(literal) ELSE literal = NULL

\* C9: under a date/time column a native date or datetime value is rendered
\* quoted as YYYY-MM-DD (DATE) or YYYY-MM-DD HH:MM:SS (TIMESTAMP), a string
\* is rendered quoted unchanged, and only a value that is neither is NULL;
\* a calendar date is not rendered NULL.
C9_DateRendering ==
    esc_pc = "done" /\ (IsDateColumn \/ IsTimestampColumn) /\ ~IsNullValue =>
        /\ (value.k = "datetime" /\ IsDateColumn
              => literal = quoted(Pad(value.y, 4) \o <<"-">> \o Pad(value.mo, 2)
                                     \o <<"-">> \o Pad(value.d, 2)))
        /\ (value.k = "datetime" /\ IsTimestampColumn
              => literal = quoted(Pad(value.y, 4) \o <<"-">> \o Pad(value.mo, 2)
                                     \o <<"-">> \o Pad(value.d, 2) \o <<" ">>
                                     \o Pad(value.h, 2) \o <<":">> \o Pad(value.mi, 2)
                                     \o <<":">> \o Pad(value.sec, 2)))
        /\ (value.k = "date" /\ IsDateColumn
              => literal = quoted(Pad(value.y, 4) \o <<"-">> \o Pad(value.mo, 2)
                                     \o <<"-">> \o Pad(value.d, 2)))
        /\ (value.k = "str" => literal = quoted(value.s))
        /\ (literal = NULL => value.k \notin {"datetime", "date", "str"})

\* C27: every literal an escaper returns, for every value and column type,
\* is NULL, TRUE, FALSE, a numeric literal, or a quoted string in which every
\* quote of the content is doubled; a string with a quote under a TIMESTAMP
\* or DATE column gives no literal with a lone quote.
C27_LiteralWellFormed ==
    esc_pc = "done" =>
        \/ literal \in {NULL, SQL_TRUE, SQL_FALSE}
        \/ IsNumericLiteral(literal)
        \/ IsQuotedLiteral(literal) /\ Undouble(Inner(literal)).ok

(***************************************************************************)
(* Claims about the Type Inferencer                                        *)
(***************************************************************************)

NonNullCells == { series.cells[i] : i \in { j \in DOMAIN series.cells :
                                              series.cells[j] # PyNaN } }

Longest == CHOOSE n \in { Len(py_str(v)) : v \in NonNullCells } :
               \A v \in NonNullCells : Len(py_str(v)) <= n

\* the column is string-like for the pandas installed
StringLike == is_string_dtype(series, pandas)

Fits32(v) ==
    IF v.neg THEN v.hi < 32768 \/ (v.hi = 32768 /\ v.lo = 0)
    ELSE v.hi <= 32767

\* C11: for an integral column with a non-null value, infer_postgres_type
\* returns INTEGER if and only if every non-null value lies in
\* -2147483648..2147483647, and BIGINT as soon as one value lies outside.
C11_IntegerRange ==
    inf_pc = "inferred" /\ series.dtype = "int64" /\ NonNullCells # {} =>
        /\ pg_type = SqlType("INTEGER") <=> \A v \in NonNullCells : Fits32(v)
        /\ pg_type = SqlType("BIGINT") <=> \E v \in NonNullCells : ~Fits32(v)

C11_Witness ==
    /\ inf_pc = "inferred"
    /\ series = Series("int64", <<PyInt(0), BigInt(FALSE, 32768, 0)>>)
    /\ pg_type = SqlType("BIGINT")

\* the columns of strings of the examples
Strings123 == Series("object", <<PyStr(<<"1">>), PyStr(<<"2">>), PyStr(<<"3">>)>>)

Strings15And20 == Series("object", <<PyStr(<<"1",".","5">>), PyStr(<<"2",".","0">>)>>)

\* C12: the Type Inferencer applied to the strings "1","2","3" without nulls
\* infers INTEGER and NOT NULL; applied to the strings "1.5","2.0" NUMERIC;
\* applied to one string of 300 characters TEXT; applied to "x" and null a
\* nullable column.
C12_InferenceExamples ==
    /\ inf_pc = "inferred" /\ series = Strings123 => pg_type = SqlType("INTEGER")
    /\ inf_pc = "declared" /\ series = Strings123 =>
           col_decl = [type |-> SqlType("INTEGER"), nullable |-> "NOT NULL"]
    /\ inf_pc = "inferred" /\ series = Strings15And20 => pg_type = SqlType("NUMERIC")
    /\ inf_pc = "inferred" /\ series = Series("object", <<PyStr(Chars(300))>>) =>
           pg_type = SqlType("TEXT")
    /\ inf_pc = "declared" /\ series.cells \in {<<PyStr(<<"x">>), PyNaN>>,
                                                  <<PyStr(<<"x">>), PyNone>>} =>
           col_decl.nullable = "NULL"

(***************************************************************************)
(* Claims about the converters                                             *)
(***************************************************************************)

\* the places of the column definitions in the text of the output file
ColDefPlaces == { i \in DOMAIN sql_file.text : sql_file.text[i].kind = "coldef" }

\* C1: in every CREATE TABLE statement emitted for two columns or more, the
\* column definitions are separated from each other by a comma, in the
\* with-data variants as in the no-data variants.
C1_ColumnsCommaSeparated ==
    conv_pc = "done" =>
        \A i \in ColDefPlaces :
            (\E j \in ColDefPlaces : j > i) =>
                /\ sql_file.text[i + 1].kind = "text"
                /\ sql_file.text[i + 1].text = ",\n"

\* the column definitions of the output file, in the order of the text
ColDefs == SelectSeq(sql_file.text, LAMBDA p : p.kind = "coldef")

\* an observed value of the j-th column of the source is null
SourceHasNull(j) ==
    IF variant \in FrameVariants
    THEN \E i \in DOMAIN src.cols[j].ser.cells : src.cols[j].ser.cells[i] \in {PyNaN, PyNone}
    ELSE \E r \in DOMAIN src.records : src.records[r][j] = PyNone

\* C13: in every CREATE TABLE of a typed converter a column is declared NOT
\* NULL if and only if no observed value of the column in the source is null,
\* else NULL, whatever the type, and also for a source without data rows.
C13_NullabilityFromValues ==
    conv_pc = "done" =>
        \A j \in DOMAIN ColDefs :
            ColDefs[j].nullable = "NOT NULL" <=> ~SourceHasNull(j)

(***************************************************************************)
(* Claims about the DBF field mapping                                      *)
(***************************************************************************)

\* the type code without its case
Code == UpperChar(dbc_field.type)

\* what the mapping gives for the codes whose result does not depend on the
\* length: numeric with decimals, float, date, datetime, logical, memo,
\* binary and the codes it does not know
MapsFixedCodes ==
    /\ Code = "N" /\ dbc_field.decimal > 0 =>
           dbc_pg = SqlTypeN("NUMERIC", <<dbc_field.length, dbc_field.decimal>>)
    /\ Code = "F" => dbc_pg = SqlType("NUMERIC")
    /\ Code = "D" => dbc_pg = SqlType("DATE")
    /\ Code = "T" => dbc_pg = SqlType("TIMESTAMP")
    /\ Code = "L" => dbc_pg = SqlType("BOOLEAN")
    /\ Code = "M" => dbc_pg = SqlType("TEXT")
    /\ Code = "B" => dbc_pg = SqlType("BYTEA")
    /\ Code \notin {"C", "N", "F", "D", "T", "L", "M", "B"} => dbc_pg = SqlType("TEXT")

\* C14 as stated: for every field descriptor with length >= 0 and decimals
\* >= 0, character gives VARCHAR(length) when length <= 255 and TEXT beyond;
\* numeric with decimals NUMERIC(length,decimals); numeric without decimals
\* INTEGER when length <= 10 and BIGINT otherwise; float NUMERIC; date DATE;
\* datetime TIMESTAMP; logical BOOLEAN; memo TEXT; binary BYTEA; any other
\* code TEXT; the code is matched without regard to case.
C14_FieldMappingAsStated ==
    map_pc = "done" =>
        /\ MapsFixedCodes
        /\ Code = "C" =>
               dbc_pg = IF dbc_field.length <= 255
                        THEN SqlTypeN("VARCHAR", <<dbc_field.length>>)
                        ELSE SqlType("TEXT")
        /\ Code = "N" /\ dbc_field.decimal = 0 =>
               dbc_pg = IF dbc_field.length <= 10 THEN SqlType("INTEGER")
                        ELSE SqlType("BIGINT")

\* C14 amended: the same for a length of at least 1; a character field of
\* length 0 gives TEXT and a numeric field of length 0 without decimals
\* gives NUMERIC.
C14_FieldMapping ==
    map_pc = "done" =>
        /\ MapsFixedCodes
        /\ Code = "C" =>
               dbc_pg = IF dbc_field.length = 0 \/ dbc_field.length > 255
                        THEN SqlType("TEXT")
                        ELSE SqlTypeN("VARCHAR", <<dbc_field.length>>)
        /\ Code = "N" /\ dbc_field.decimal = 0 =>
               dbc_pg = IF dbc_field.length = 0 THEN SqlType("NUMERIC")
                        ELSE IF dbc_field.length <= 10 THEN SqlType("INTEGER")
                        ELSE SqlType("BIGINT")

C14_Witness ==
    /\ map_pc = "done"
    /\ dbc_field = [type |-> "n", length |-> 0, decimal |-> 0]
    /\ dbc_pg = SqlType("NUMERIC")

\* the digit string a is no greater than the digit string b, neither
\* starting with a zero
RECURSIVE DigitsLeq(_, _)
DigitsLeq(a, b) ==
    IF Len(a) # Len(b) THEN Len(a) < Len(b)
    ELSE IF a = <<>> THEN TRUE
    ELSE IF a[1] # b[1] THEN DigitsVal(<<a[1]>>) < DigitsVal(<<b[1]>>)
    ELSE DigitsLeq(Tail(a), Tail(b))

\* the greatest integer a numeric field of that many characters holds
GreatestOfLength(n) == [i \in 1..n |-> "9"]

\* C29: when dbc_type_to_postgres maps a numeric field without decimals to
\* INTEGER (length 1 to 10), every integer the field holds within its length
\* lies in the signed 32-bit range, so that no INSERT overflows the column.
C29_IntegerFieldFits ==
    (/\ map_pc = "done"
     /\ UpperChar(dbc_field.type) = "N"
     /\ dbc_field.decimal = 0
     /\ dbc_pg = SqlType("INTEGER"))
        => DigitsLeq(GreatestOfLength(dbc_field.length), py_str(INT32_MAX))

(***************************************************************************)
(* Claims about a whole conversion                                         *)
(***************************************************************************)

\* the places of the pieces of one kind in the text of the output file
Places(kind) == { i \in DOMAIN sql_file.text : sql_file.text[i].kind = kind }

\* the INSERT statements of the output file, in the order of the text
Inserts == SelectSeq(sql_file.text, LAMBDA p : p.kind = "insert")

\* the scenario ran through a with-data converter of frames
ScenarioDone ==
    /\ conv_pc = "done"
    /\ src \in ScenarioFrames
    /\ variant \in {"csv_with_data", "xlsx_with_data"}

\* one CREATE TABLE, then exactly three INSERT statements whose name value is
\* a quoted literal or NULL
ScenarioStatements ==
    /\ Cardinality(Places("create")) = 1
    /\ Len(Inserts) = 3
    /\ \A i \in Places("insert") : \A c \in Places("create") : c < i
    /\ \A k \in DOMAIN Inserts :
           /\ Inserts[k].cols = << <<"i","d">>, <<"n","a","m","e">> >>
           /\ Inserts[k].values[2] = NULL \/ IsQuotedLiteral(Inserts[k].values[2])

\* C15 as stated: a table of 3 rows and 2 columns (id integral, name text)
\* with exactly one null name gives one CREATE TABLE that declares
\* 'name TEXT NULL', followed by exactly 3 INSERT statements, the name value
\* of each a quoted literal or NULL.
C15_ScenarioAsStated ==
    ScenarioDone =>
        /\ ScenarioStatements
        /\ ColDefs[2] = ColDef(<<"n","a","m","e">>, SqlType("TEXT"), "NULL")

\* C15 amended: the name column is declared 'name VARCHAR(255) NULL' by a
\* pandas before 2 and 'name TEXT NULL' from pandas 2 on.
C15_Scenario ==
    ScenarioDone =>
        /\ ScenarioStatements
        /\ ColDefs[2] = ColDef(<<"n","a","m","e">>,
                               IF pandas >= 2 THEN SqlType("TEXT")
                               ELSE SqlTypeN("VARCHAR", <<255>>),
                               "NULL")

C15_Witness ==
    /\ ScenarioDone
    /\ pandas = 1
    /\ Len(Inserts) = 3
    /\ Inserts[2].values[2] = NULL
    /\ Inserts[1].values[2] = <<"'", "x", "'", "'", "'">>

\* the number of data rows of the source and of its columns
SourceRows == IF variant \in FrameVariants THEN frame_len(src.cols) ELSE Len(src.records)

SourceCols == IF variant \in FrameVariants THEN src.cols ELSE src.fields

\* the literal of the cell in row k and column i of the source, escaped under
\* the type the converter gave the column
SourceLiteral(k, i) ==
    IF variant \in FrameVariants
    THEN escape_sql_value(src.cols[i].ser.cells[k], ColDefs[i].type)
    ELSE dbc_escape_sql_value(src.records[k][i], src.fields[i].type)

\* C16: for a source of n data rows and m columns a with-data converter emits
\* exactly n INSERT statements and no BEGIN or COMMIT; the k-th INSERT is
\* built from the k-th row, its column list is the m sanitized names in the
\* order of the source and its i-th value is the escape of the row's i-th
\* cell under the i-th column's type, whatever n is against the batch size.
C16_InsertPerRow ==
    /\ conv_pc = "done"
    /\ variant \in {"csv_with_data", "xlsx_with_data", "dbc_with_data"}
    /\ src.readable
    /\ Len(SourceCols) > 0
    =>
        /\ Len(Inserts) = SourceRows
        /\ \A p \in DOMAIN sql_file.text :
               sql_file.text[p].kind \in {"text", "note", "create", "coldef",
                                           "comment_on", "insert"}
        /\ \A k \in DOMAIN Inserts :
               /\ Inserts[k].cols = [i \in DOMAIN SourceCols |->
                                        sanitize_name(SourceCols[i].name)]
               /\ Inserts[k].values = [i \in DOMAIN SourceCols |-> SourceLiteral(k, i)]

\* C26: within one table written, the sanitized column names are pairwise
\* distinct whenever the source names are: no two source columns are given
\* the same identifier in the column list of the CREATE TABLE nor in that of
\* an INSERT.
C26_DistinctIdentifiers ==
    (conv_pc = "done" /\ DistinctNames(SourceCols)) =>
        /\ \A i, j \in DOMAIN ColDefs : i # j => ColDefs[i].name # ColDefs[j].name
        /\ \A k \in DOMAIN Inserts :
              \A i, j \in DOMAIN Inserts[k].cols :
                  i # j => Inserts[k].cols[i] # Inserts[k].cols[j]

(***************************************************************************)
(* Claims about the schema extractor and its run                           *)
(***************************************************************************)

\* the run of main is over: the loop ended or the process exited
RunEnded == ext_pc \in {"done", "exited"}

\* C17: in a batch run a hard failure of one item aborts only that item:
\* every item discovered at the start is attempted exactly once, in the
\* order of discovery, and counted exactly once as a success or an error, so
\* that at the end successes + errors is the number of items discovered.
C17_EveryItemCounted ==
    RunEnded =>
        /\ Len(ext_log) = Len(catalog)
        /\ \A i \in DOMAIN ext_log : ext_log[i].table = i
        /\ total_tabelas = Cardinality({ i \in DOMAIN ext_log : ext_log[i].written })
        /\ total_erros = Cardinality({ i \in DOMAIN ext_log : ~ext_log[i].written })
        /\ total_tabelas + total_erros = Len(catalog)

\* C19: each step of the extraction of a table (columns, primary keys,
\* foreign keys, unique constraints, indexes) is fault-tolerant by itself: a
\* failing step gives an empty result for that step only, the results of the
\* other steps are kept and the table is not aborted.
C19_StepsIndependent ==
    \A i \in DOMAIN ext_log :
        LET r == ext_log[i].results IN
        /\ ext_log[i].written
        /\ \A s \in Steps :
              /\ r.faults[s] = "ok" => r[s] = catalog[ext_log[i].table][s]
              /\ r.faults[s] \in {"error", "dropped", "closed"} => r[s] = <<>>

\* C20: a closed connection is found before each query of a table and
\* replaced before the query runs, so that no table is written as a success
\* with its constraints or indexes missing because the connection was closed.
C20_ReconnectBeforeQuery ==
    \A b \in DOMAIN schema_file :
        \A s \in Steps : schema_file[b].results.faults[s] # "closed"

\* C21: when the connection is found closed in the loop over the tables and
\* the reconnection fails, the run does not abort: it never leaves the loop
\* by ending the process, and it ends with every table of the schema counted,
\* the skipped ones as errors.
C21_ReconnectFailureSkips ==
    /\ ext_pc # "exited"
    /\ ext_pc = "done" => total_tabelas + total_erros = Len(catalog)

(***************************************************************************)
(* Claims about a batch run                                                *)
(***************************************************************************)

\* the files attempted so far, in processing order
Attempted == SubSeq(files_found, 1, item - 1)

\* the blocks of the converted files among those of list found, each after
\* the "\n" its append writes first
RECURSIVE blocks_of(_, _, _, _)
blocks_of(kind, dir, found, version) ==
    IF found = <<>> THEN <<>>
    ELSE blocks_of(kind, dir, SubSeq(found, 1, Len(found) - 1), version)
           \o (IF dir[found[Len(found)]].content = "good"
               THEN <<Text("\n")>> \o block_of(kind, dir, found[Len(found)], version)
               ELSE <<>>)

\* the blocks of the tables of the extractor's run that gave SQL, in
\* processing order
WrittenBlocks ==
    LET done == SelectSeq(ext_log, LAMBDA e : e.written)
    IN  [k \in DOMAIN done |-> [table |-> done[k].table, results |-> done[k].results]]

\* the file of a CSV or DBC run: the header, then the blocks of the files
\* converted so far
BatchFileAppended ==
    run_pc \in {"loop", "done"} =>
        run_file = [exists |-> TRUE,
                    text |-> HeaderFile.text
                               \o blocks_of(script, source_dir, Attempted, pandas)]

EarlierText == Note("-- left by an earlier run")

\* C30: after a run completes, every output file of an item of that run holds
\* only text produced by that run: the shared file of a CSV or DBC run holds
\* no line of an earlier run, and the file schema-<s>.sql of a processed
\* schema holds no block of an earlier run, also when the schema has no table.
C30_NoEarlierContent ==
    /\ run_pc = "done" =>
           \A i \in 1..Len(run_file.text) : run_file.text[i] # EarlierText
    /\ RunEnded =>
           \A i \in 1..Len(schema_file) : schema_file[i] # StaleSchemaFile[1]

(***************************************************************************)
(* Claims about the statements of the schema extractor                     *)
(***************************************************************************)

\* the table extracted
Target == db[target]

\* the definition of a table as the database holds it
TrueDef(t) ==
    [colunas |-> t.colunas,
     primary_keys |-> Range(t.pk),
     foreign_keys |-> { [cols |-> fk.cols, ref_schema |-> fk.ref_schema,
                         ref_table |-> fk.ref_table, ref_cols |-> fk.ref_cols] :
                        fk \in Range(t.fks) }]

RefersElsewhere(t) ==
    \A fk \in Range(t.fks) : fk.ref_schema # t.schema \/ fk.ref_table # t.name

\* C22: round trip: for a table with a primary key of one column and one
\* foreign key to another table, executing the generated statements on an
\* empty database and extracting again gives a definition equal to the
\* original: the same columns in order, the same primary-key columns, the
\* same foreign key (local columns, table and columns referred to).
C22_RoundTrip ==
    (/\ rt_pc = "done"
     /\ Len(Target.pk) = 1
     /\ Len(Target.fks) = 1
     /\ RefersElsewhere(Target))
        => table_def = TrueDef(Target)

\* the ALTER TABLE ... FOREIGN KEY statements generated for the table
ForeignKeyStatements == SelectSeq(sql_table, LAMBDA st : st.stmt = "add_foreign_key")

\* C24: for every foreign key of the table just one ALTER TABLE ... ADD
\* CONSTRAINT ... FOREIGN KEY is generated; its local columns are those of
\* the constraint in key order, and its REFERENCES columns are the key
\* columns referred to: not empty and as many as the local ones, also for
\* another table and for a key of several columns.
C24_ForeignKeyStatements ==
    rt_pc \in {"replay", "again", "done"} =>
        /\ Len(ForeignKeyStatements) = Len(Target.fks)
        /\ \A fk \in Range(Target.fks) :
              \E k \in DOMAIN ForeignKeyStatements :
                 LET st == ForeignKeyStatements[k] IN
                 /\ st.constraint_name = fk.constraint_name
                 /\ st.cols = fk.cols
                 /\ st.ref_schema = fk.ref_schema
                 /\ st.ref_table = fk.ref_table
                 /\ st.ref_cols = fk.ref_cols
                 /\ st.ref_cols # <<>>
                 /\ Len(st.ref_cols) = Len(st.cols)

\* C25: the PRIMARY KEY clause generated for a table lists the columns of
\* the primary key of that table, each once, in key order, whatever other
\* tables the database holds: a primary key of the same name on a table of
\* another schema adds no column.
C25_PrimaryKeyOwnColumns ==
    rt_pc \in {"replay", "again", "done"} =>
        \A k \in DOMAIN sql_table :
            sql_table[k].stmt = "create_table" => sql_table[k].primary_key = Target.pk

(***************************************************************************)
(* Claims about the SQL splitter                                           *)
(***************************************************************************)

\* the content lines of the block files, in the order of the block numbers
BlockLines == Flatten([k \in DOMAIN blocos |-> blocos[k].linhas])

\* C23: dividir_sql returns the number of block files it created: for an
\* existing input of L >= 0 lines and a block size N >= 1 the value returned
\* without error is the number of files written, ceil(L / N), also when L is
\* a multiple of N and when L = 0; and it returns 0 only when the input does
\* not exist or an error occurred.
C23_ReturnsBlockCount ==
    /\ split_pc = "done" =>
          /\ retorno = Len(blocos)
          /\ retorno = blocks_announced(Len(arquivo_origem.linhas), linhas_por_bloco)
    /\ retorno = 0 => split_pc \in {"missing", "error"}

====
